---- MODULE Spec2Model ----
(***************************************************************************)
(* Return-type inference of freecad-stub-gen.                              *)
(*                                                                         *)
(* Source text (expression fragments, function bodies) is a sequence of    *)
(* one-character strings, so that prefix, suffix, containment, stripping   *)
(* and regular-expression scans are computed character by character as     *)
(* the Python code computes them.  Python type names (the resolved types)  *)
(* are TLA+ strings.                                                       *)
(***************************************************************************)
EXTENDS FiniteSets, Integers, Sequences, TLC

VARIABLES
    conv,             \* the live ReturnTypeConverter: functionBody, classNameWithModule
    requiredImports,  \* OrderedStrSet shared by every converter of the generation unit
    pc,               \* "ready": converter constructed; "done": a call has returned
    call,             \* the call that returned last: operation and arguments
    result,           \* what that call returned or raised
    calls,            \* number of calls that returned in this generation unit
    files,            \* the source files next to the generator's file, as readContent sees them
    generator,        \* the stub generator safeCreate gave: its file name and impContent
    emitted           \* the generator operation that returned last: arguments and output

vars == <<conv, requiredImports, pc, call, result, calls, files, generator, emitted>>

(***************************************************************************)
(* Python str primitives on character sequences.                           *)
(***************************************************************************)
Lower == {"a","b","c","d","e","f","g","h","i","j","k","l","m",
          "n","o","p","q","r","s","t","u","v","w","x","y","z"}
Upper == {"A","B","C","D","E","F","G","H","I","J","K","L","M",
          "N","O","P","Q","R","S","T","U","V","W","X","Y","Z"}
Digit == {"0","1","2","3","4","5","6","7","8","9"}
Whitespace == {" ", "\n", "\t"}
\* the regular-expression class \w
WordChar == Lower \cup Upper \cup Digit \cup {"_"}

MinOf(S) == CHOOSE m \in S : \A o \in S : m <= o
MaxOf(S) == CHOOSE m \in S : \A o \in S : m >= o

\* s[a:b] with Python's 0-based, end-exclusive offsets
Slice(s, a, b) == SubSeq(s, a + 1, b)

\* s.startswith(p), at 0-based offset i: s.startswith(p, i)
StartsWithAt(s, p, i) ==
    /\ i + Len(p) <= Len(s)
    /\ \A j \in 1..Len(p) : s[i + j] = p[j]
StartsWith(s, p) == StartsWithAt(s, p, 0)
EndsWith(s, p) == Len(p) <= Len(s) /\ StartsWithAt(s, p, Len(s) - Len(p))
\* p in s
Contains(s, p) == \E i \in 0..(Len(s) - Len(p)) : StartsWithAt(s, p, i)
\* s.find(p, start): 0-based offset of the first occurrence at or after start, or -1
FindFrom(s, p, start) ==
    LET hits == {i \in start..(Len(s) - Len(p)) : StartsWithAt(s, p, i)}
    IN  IF hits = {} THEN -1 ELSE MinOf(hits)
Find(s, p) == FindFrom(s, p, 0)
\* s.rfind(p)
RFind(s, p) ==
    LET hits == {i \in 0..(Len(s) - Len(p)) : StartsWithAt(s, p, i)}
    IN  IF hits = {} THEN -1 ELSE MaxOf(hits)

RemovePrefix(s, p) == IF StartsWith(s, p) THEN Slice(s, Len(p), Len(s)) ELSE s
RemoveSuffix(s, p) == IF EndsWith(s, p) THEN Slice(s, 0, Len(s) - Len(p)) ELSE s

\* s.strip()
Strip(s) ==
    LET solid == {i \in 1..Len(s) : s[i] \notin Whitespace}
    IN  IF solid = {} THEN <<>> ELSE SubSeq(s, MinOf(solid), MaxOf(solid))

\* s.isidentifier() for ASCII text
IsIdentifier(s) ==
    /\ Len(s) > 0
    /\ s[1] \in Lower \cup Upper \cup {"_"}
    /\ \A i \in 1..Len(s) : s[i] \in WordChar

\* s.split(sep): the pieces between the occurrences of sep, left to right
RECURSIVE Split(_, _)
Split(s, sep) ==
    LET i == Find(s, sep)
    IN  IF i < 0 THEN <<s>>
        ELSE <<Slice(s, 0, i)>> \o Split(Slice(s, i + Len(sep), Len(s)), sep)

\* s.split(sep, maxsplit=1)
Split1(s, sep) ==
    LET i == Find(s, sep)
    IN  IF i < 0 THEN <<s>>
        ELSE <<Slice(s, 0, i), Slice(s, i + Len(sep), Len(s))>>

\* the Python str holding the characters of s
RECURSIVE Text(_)
Text(s) ==
    IF s = <<>> THEN ""
    ELSE IF Len(s) = 1 THEN s[1]
    ELSE Text(SubSeq(s, 1, Len(s) \div 2)) \o Text(SubSeq(s, Len(s) \div 2 + 1, Len(s)))

\* sep.join(parts) for Python strs
RECURSIVE JoinStr(_, _)
JoinStr(parts, sep) ==
    IF parts = <<>> THEN ""
    ELSE IF Len(parts) = 1 THEN parts[1]
    ELSE parts[1] \o sep \o JoinStr(Tail(parts), sep)

\* StrWrapper(start=...): the fragment starts with one of the patterns
SwStart(s, pats) == \E p \in pats : StartsWith(s, p)
\* StrWrapper(end=...)
SwEnd(s, pats) == \E p \in pats : EndsWith(s, p)
\* StrWrapper(contain=...)
SwContain(s, pats) == \E p \in pats : Contains(s, p)

(***************************************************************************)
(* Resolved types (RetType) and what a resolver call gives back.           *)
(*   k = "str"    a Python type name v                                     *)
(*   k = "any"    AnyValue                                                 *)
(*   k = "union"  UnionArgument with the members m, ordered and unique     *)
(*   k = "raise"  the exception named v was raised                         *)
(*   k = "none"   Python None: the resolver did not match                  *)
(* imp lists the module names the call added to requiredImports, in the    *)
(* order of the add calls.                                                 *)
(***************************************************************************)
StrType(name) == [k |-> "str", v |-> name, m |-> <<>>, imp |-> <<>>]
AnyValue == [k |-> "any", v |-> "", m |-> <<>>, imp |-> <<>>]
UnionType(members) == [k |-> "union", v |-> "", m |-> members, imp |-> <<>>]
Raise(exc) == [k |-> "raise", v |-> exc, m |-> <<>>, imp |-> <<>>]
NoMatch == [k |-> "none", v |-> "", m |-> <<>>, imp |-> <<>>]
InvalidReturnType == Raise("InvalidReturnType")

\* the same outcome with the imports `before` recorded ahead of its own
WithImports(before, r) == [r EXCEPT !.imp = before \o @]

\* OrderedStrSet.add / update: append what is not there yet
RECURSIVE OrderedAdd(_, _)
OrderedAdd(set, items) ==
    IF items = <<>> THEN set
    ELSE OrderedAdd(IF \E i \in 1..Len(set) : set[i] = Head(items)
                    THEN set ELSE Append(set, Head(items)),
                    Tail(items))

Elems(seq) == {seq[i] : i \in 1..Len(seq)}

\* UnionArgument(iterable): ordered, duplicates collapsed, first occurrence kept
UnionArgument(items) == OrderedAdd(<<>>, items)

\* str() of a resolved type
AnyStr == "typing.Any"
TypeStr(r) ==
    CASE r.k = "str" -> r.v
      [] r.k = "any" -> AnyStr
      [] r.k = "union" -> JoinStr(r.m, " | ")
      [] OTHER -> ""

(***************************************************************************)
(* Collaborators of the converter that live in other modules of the        *)
(* package (cpp_function, converters, names, py_build_converter).          *)
(***************************************************************************)
\* whether the character at 1-based index i of s lies inside a string literal
InLiteral(s, i) ==
    Cardinality({j \in 1..(i - 1) : s[j] = "\"" /\ (j = 1 \/ s[j - 1] # "\\")}) % 2 = 1
\* the bracket depth at 1-based index i of s, counted from index `from`
DepthAt(s, from, i) ==
    Cardinality({j \in from..(i - 1) : s[j] = "(" /\ ~InLiteral(s, j)})
    - Cardinality({j \in from..(i - 1) : s[j] = ")" /\ ~InLiteral(s, j)})
\* the pieces of SubSeq(s, from, stop - 1) between the cut indices at or after from
RECURSIVE PiecesBetween(_, _, _, _)
PiecesBetween(s, from, cuts, stop) ==
    LET later == {c \in cuts : c >= from}
    IN  IF later = {} THEN <<SubSeq(s, from, stop - 1)>>
        ELSE <<SubSeq(s, from, MinOf(later) - 1)>>
             \o PiecesBetween(s, MinOf(later) + 1, cuts, stop)
\* the top-level pieces of s from 1-based index `from` on, cut at every `sep` outside
\* brackets and string literals, up to the bracket that closes the enclosing call
ScanPieces(s, from, sep) ==
    LET top(i) == DepthAt(s, from, i) = 0 /\ ~InLiteral(s, i)
        closing == {i \in from..Len(s) : s[i] = ")" /\ top(i)}
        stop == IF closing = {} THEN Len(s) + 1 ELSE MinOf(closing)
    IN  PiecesBetween(s, from, {i \in from..(stop - 1) : s[i] = sep /\ top(i)}, stop)

StripAll(pieces) == [i \in 1..Len(pieces) |-> Strip(pieces[i])]

\* generateExpressionUntilChar(text, startPos, ',', bracketL='(', bracketR=')')
generateExpressionUntilChar(text, startPos) ==
    LET pieces == StripAll(ScanPieces(text, startPos + 1, ","))
    IN  IF pieces = << <<>> >> THEN <<>> ELSE pieces

\* genFuncArgs(functionCall): the arguments of the first call in the text
genFuncArgs(functionCall) ==
    generateExpressionUntilChar(functionCall, Find(functionCall, <<"(">>) + 1)

\* removeQuote(text): the text of a quoted literal
removeQuote(text) ==
    LET t == Strip(text)
    IN  IF Len(t) >= 2 /\ t[1] = "\"" /\ t[Len(t)] = "\""
        THEN SubSeq(t, 2, Len(t) - 1) ELSE t

\* A qualified Python name "Module.Class"; mod = "" when there is no module
QName(mod, cls) == [mod |-> mod, cls |-> cls]
\* getClassName(classWithModule): the part after the last dot
getClassName(classWithModule) == classWithModule.cls
\* getModuleName(classWithModule): the part before the last dot, falsy if none
getModuleName(classWithModule) == classWithModule.mod
\* the text of the qualified name
QText(q) == IF q.mod = "" THEN q.cls ELSE q.mod \o "." \o q.cls

\* The static class -> module table of the project (pointer name -> Python name)
ClassRegistry ==
    (<<"B","a","s","e",":",":","V","e","c","t","o","r","P","y">> :> QName("FreeCAD", "Vector")) @@
    (<<"V","e","c","t","o","r","P","y">> :> QName("FreeCAD", "Vector")) @@
    (<<"B","a","s","e",":",":","M","a","t","r","i","x","P","y">> :> QName("FreeCAD", "Matrix")) @@
    (<<"M","a","t","r","i","x","P","y">> :> QName("FreeCAD", "Matrix")) @@
    (<<"P","a","r","t",":",":","T","o","p","o","S","h","a","p",
        "e","P","y">> :> QName("Part", "Shape")) @@
    (<<"T","o","p","o","S","h","a","p","e","P","y">> :> QName("Part", "Shape")) @@
    (<<"P","r","o","p","e","r","t","y","C","o","m","p","l","e",
        "x","G","e","o","D","a","t","a">> :> QName("FreeCAD", "PropertyComplexGeoData"))

\* getClassWithModulesFromPointer(cType): a name the table does not know keeps its
\* text and has no module
getClassWithModulesFromPointer(cType) ==
    LET t == Strip(RemoveSuffix(Strip(cType), <<"*">>))
    IN  IF t \in DOMAIN ClassRegistry THEN ClassRegistry[t]
        ELSE QName("", Text(RemoveSuffix(t, <<"P","y">>)))

\* parsePyBuildValues(formatText): the Python type of a one-unit format string,
\* AnyValue for an object code
FormatCodes ==
    (<<"s">> :> "str") @@ (<<"z">> :> "str") @@ (<<"u">> :> "str") @@
    (<<"i">> :> "int") @@ (<<"l">> :> "int") @@ (<<"k">> :> "int") @@ (<<"n">> :> "int") @@
    (<<"d">> :> "float") @@ (<<"f">> :> "float") @@
    (<<"i","i">> :> "tuple[int, int]") @@ (<<"(","i","i",")">> :> "tuple[int, int]") @@
    (<<"d","d">> :> "tuple[float, float]") @@ (<<"(","d","d",")">> :> "tuple[float, float]") @@
    (<<"s","i">> :> "tuple[str, int]") @@ (<<"(","s","i",")">> :> "tuple[str, int]")
parsePyBuildValues(formatText) ==
    IF formatText \in DOMAIN FormatCodes THEN StrType(FormatCodes[formatText])
    ELSE AnyValue

(***************************************************************************)
(* The regular expressions of the converter, matched as Python's re        *)
(* matches them.  Offsets are 0-based; the character at offset i of t is   *)
(* t[i + 1].  A greedy repetition is tried from its longest extent down    *)
(* and the first extent the rest of the pattern accepts is taken: that is  *)
(* the largest accepted extent.                                            *)
(***************************************************************************)
NoMatchObj == [found |-> FALSE]

\* \b at offset i of t
WordBoundary(t, i) ==
    ((i > 0) /\ t[i] \in WordChar) # ((i < Len(t)) /\ t[i + 1] \in WordChar)

\* end offset of the longest run of characters of `class` starting at offset i
RunEnd(t, i, class) ==
    MinOf({j \in i..(Len(t) - 1) : t[j + 1] \notin class} \cup {IF i > Len(t) THEN i ELSE Len(t)})

\* [\w:<>*\s] of the type group
TypeChar == WordChar \cup {":", "<", ">", "*"} \cup Whitespace
\* end offset of the longest run of [^;] starting at offset i
RunEndNotSemicolon(t, i) ==
    MinOf({j \in i..(Len(t) - 1) : t[j + 1] = ";"} \cup {IF i > Len(t) THEN i ELSE Len(t)})

\* the match with the largest extent e among DOMAIN rest that rest[e] accepts
Longest(rest) ==
    LET accepted == {e \in DOMAIN rest : rest[e].found}
    IN  IF accepted = {} THEN NoMatchObj ELSE rest[MaxOf(accepted)]
Greedy(extents, rest(_)) == Longest([e \in extents |-> rest(e)])

\* [;:] at offset i ends the match
DecEnd(t, i, g) ==
    IF i < Len(t) /\ t[i + 1] \in {";", ":"}
    THEN [g EXCEPT !.found = TRUE, !.end = i + 1]
    ELSE NoMatchObj

\* (?:,\s*\w+\s*)* from offset i, greedy, then [;:].  After the comma \s* is
\* followed by \w+, so only its longest extent can be accepted.
RECURSIVE DecMoreNames(_, _, _)
DecMoreNames(t, i, g) ==
    LET a == RunEnd(t, i + 1, Whitespace)
        afterWord(e) == Greedy(e..RunEnd(t, e, Whitespace),
                               LAMBDA w : DecMoreNames(t, w, g))
        more == IF i < Len(t) /\ t[i + 1] = ","
                THEN Greedy((a + 1)..RunEnd(t, a, WordChar), afterWord)
                ELSE NoMatchObj
    IN  IF more.found THEN more ELSE DecEnd(t, i, g)

\* =\s*(?P<val>[^;]*) from the offset eq after `=`, then [;:]
DecVal(t, eq, g) ==
    LET val(a) == Greedy(a..RunEndNotSemicolon(t, a),
                         LAMBDA e : DecEnd(t, e, [g EXCEPT !.val = Slice(t, a, e)]))
    IN  Greedy(eq..RunEnd(t, eq, Whitespace), val)

\* \((?P<args>[^;]+)\) from the offset a after `(`, then [;:]
DecArgs(t, a, g) ==
    Greedy((a + 1)..RunEndNotSemicolon(t, a),
           LAMBDA e : IF e < Len(t) /\ t[e + 1] = ")"
                      THEN DecEnd(t, e + 1, [g EXCEPT !.args = Slice(t, a, e)])
                      ELSE NoMatchObj)

\* the optional group after the variable name, at offset i, then [;:]
DecTail(t, i, g) ==
    LET names == DecMoreNames(t, i, g)
        val == IF i < Len(t) /\ t[i + 1] = "=" THEN DecVal(t, i + 1, g) ELSE NoMatchObj
        args == IF i < Len(t) /\ t[i + 1] = "(" THEN DecArgs(t, i + 1, g) ELSE NoMatchObj
    IN  IF names.found THEN names
        ELSE IF val.found THEN val
        ELSE IF args.found THEN args
        ELSE DecEnd(t, i, g)

\* \b{variableName}\b at offset i, \s*, and the rest of the pattern
DecName(t, name, i, g) ==
    IF /\ WordBoundary(t, i)
       /\ StartsWithAt(t, name, i)
       /\ WordBoundary(t, i + Len(name))
    THEN Greedy((i + Len(name))..RunEnd(t, i + Len(name), Whitespace),
                LAMBDA e : DecTail(t, e, g))
    ELSE NoMatchObj

\* (?:\b\w+\s*,\s*)* from offset i, greedy, then the variable name
RECURSIVE DecNamesBefore(_, _, _, _)
DecNamesBefore(t, name, i, g) ==
    LET afterComma(c) == Greedy(c..RunEnd(t, c, Whitespace),
                                LAMBDA e : DecNamesBefore(t, name, e, g))
        afterWs(w) == IF w < Len(t) /\ t[w + 1] = "," THEN afterComma(w + 1)
                      ELSE NoMatchObj
        afterWord(e) == Greedy(e..RunEnd(t, e, Whitespace), afterWs)
        more == IF WordBoundary(t, i)
                THEN Greedy((i + 1)..RunEnd(t, i, WordChar), afterWord)
                ELSE NoMatchObj
    IN  IF more.found THEN more ELSE DecName(t, name, i, g)

\* (?P<type>[^\d\W][\w:<>*\s]*(?<![:\s])) from offset a, \s*, and the rest
DecType(t, name, a, g) ==
    LET afterType(e) ==
            IF t[e] \notin ({":"} \cup Whitespace)
            THEN Greedy(e..RunEnd(t, e, Whitespace),
                        LAMBDA w : DecNamesBefore(t, name, w,
                                                  [g EXCEPT !.type = Slice(t, a, e)]))
            ELSE NoMatchObj
    IN  IF a < Len(t) /\ t[a + 1] \in (WordChar \ Digit)
        THEN Greedy((a + 1)..RunEnd(t, a + 1, TypeChar), afterType)
        ELSE NoMatchObj

\* variableDecReg.match(t, i): (?P<directive>\#)? (?>\s*) and the type group
DecMatchAt(t, name, i) ==
    LET g0 == [found |-> FALSE, start |-> i, end |-> i, directive |-> FALSE,
               type |-> <<>>, val |-> <<>>, args |-> <<>>]
        withDirective ==
            IF i < Len(t) /\ t[i + 1] = "#"
            THEN DecType(t, name, RunEnd(t, i + 1, Whitespace),
                         [g0 EXCEPT !.directive = TRUE])
            ELSE NoMatchObj
    IN  IF withDirective.found THEN withDirective
        ELSE DecType(t, name, RunEnd(t, i, Whitespace), g0)

\* finditer: of the matches matchAt[p] at the offsets p, those met scanning left to
\* right from offset pos on, each scan resuming where the last match ended
RECURSIVE FindIter(_, _)
FindIter(matchAt, pos) ==
    LET later == {p \in DOMAIN matchAt : p >= pos /\ matchAt[p].found}
    IN  IF later = {} THEN <<>>
        ELSE <<matchAt[MinOf(later)]>> \o FindIter(matchAt, matchAt[MinOf(later)].end)

\* variableDecReg.finditer(t)
DecFindIter(t, name) ==
    FindIter([p \in 0..(Len(t) - 1) |-> DecMatchAt(t, name, p)], 0)

\* re.compile(rf'{variableName}\b\s*=\s*([^;]*);').match(t, pos).  After the name and
\* `=` the two \s* and [^;]* are greedy and the closing `;` is the first one, so
\* nothing is retried.
AssignMatchAt(t, name, pos) ==
    LET n == pos + Len(name)
        eq == RunEnd(t, n, Whitespace)
        a == RunEnd(t, eq + 1, Whitespace)
        e == RunEndNotSemicolon(t, a)
    IN  IF /\ StartsWithAt(t, name, pos)
           /\ WordBoundary(t, n)
           /\ eq < Len(t) /\ t[eq + 1] = "="
           /\ e < Len(t)
        THEN [found |-> TRUE, text |-> Slice(t, a, e), end |-> e + 1]
        ELSE NoMatchObj

\* that pattern's finditer(t, pos): the matches, left to right
AssignFindIter(t, name, pos) ==
    FindIter([p \in pos..(Len(t) - 1) |-> AssignMatchAt(t, name, p)], pos)

\* REG_RETURN = re.compile(r'return ([^;]+);').match(t, pos)
ReturnMatchAt(t, pos) ==
    LET a == pos + 7
        e == RunEndNotSemicolon(t, a)
    IN  IF StartsWithAt(t, <<"r","e","t","u","r","n"," ">>, pos) /\ e > a /\ e < Len(t)
        THEN [found |-> TRUE, text |-> Slice(t, a, e), end |-> e + 1]
        ELSE NoMatchObj

\* REG_RETURN.finditer(t): the matches, left to right
ReturnFindIter(t) ==
    FindIter([p \in 0..(Len(t) - 1) |-> ReturnMatchAt(t, p)], 0)

(***************************************************************************)
(* ReturnTypeConverterBase.  `self` holds functionBody and                 *)
(* classNameWithModule; d is the number of nested getExpressionType calls  *)
(* the interpreter still allows.                                           *)
(***************************************************************************)
RECURSIVE getExpressionType(_, _, _, _, _)
RECURSIVE _findVariableType(_, _, _, _)

\* _removePrefixes(varText)
_removePrefixes(varText) ==
    LET t == Strip(varText)
        u == IF SwStart(t, {<<"n","e","w","_","r","e","f","e",
        "r","e","n","c","e","_","t","o","(">>, <<"P","y",":",":",
        "n","e","w","_","r","e","f","e","r","e","n","c","e","_","t","o","(">>})
                /\ EndsWith(t, <<")">>)
             THEN Strip(RemoveSuffix(RemovePrefix(RemovePrefix(t, <<"P","y",":",":">>),
                                                  <<"n","e","w",
        "_","r","e","f","e","r","e","n","c","e","_","t","o","(">>), <<")">>))
             ELSE t
    IN  Strip(RemovePrefix(Strip(RemovePrefix(u, <<"c","o","n","s","t">>)), <<"*">>))

\* _removeSuffix(varText)
_removeSuffix(varText) ==
    Strip(RemoveSuffix(Strip(RemoveSuffix(varText, <<"*">>)), <<"&">>))

\* the sentinels of _matchLiterals
Sentinels == {<<"0">>, <<"-","1">>, <<"N","U","L","L">>, <<"n",
        "u","l","l","p","t","r">>, <<"0","L">>}

\* _matchLiterals with the onlyLiteral test lost: a sentinel always raises
_matchLiterals_alwaysRaise(varText, onlyLiteral) ==
    IF varText = <<>> THEN AnyValue
    ELSE IF varText \in Sentinels THEN InvalidReturnType
    ELSE NoMatch

\* _matchLiterals(varText, endPos, onlyLiteral)
_matchLiterals(varText, onlyLiteral) ==
    IF varText = <<>> THEN AnyValue
    ELSE IF varText \in Sentinels
        THEN IF onlyLiteral THEN AnyValue ELSE InvalidReturnType
    ELSE NoMatch

\* getInnerType(varType, variableName, decStartPos, decEndPos, endPos)
getInnerType(varType) == varType

\* the sub-types of PyTuple_Pack: str(getExpressionType(v, endPos)) of each argument
\* in turn; the first exception ends the comprehension
RECURSIVE TupleSubTypes(_, _, _, _, _)
TupleSubType(self, args, endPos, d, done, r) ==
    IF r.k = "raise" THEN WithImports(done.imp, r)
    ELSE TupleSubTypes(self, Tail(args), endPos, d,
                       [done EXCEPT !.m = Append(@, TypeStr(r)), !.imp = @ \o r.imp])
TupleSubTypes(self, args, endPos, d, done) ==
    IF args = <<>> THEN done
    ELSE TupleSubType(self, args, endPos, d, done,
                      getExpressionType(self, Head(args), endPos, FALSE, d))

\* islice(args, 1, None)
Islice1(args) == SubSeq(args, 2, Len(args))

\* f'tuple[{", ".join(subTypes)}]'
TupleOf(sub) ==
    IF sub.k = "raise" THEN sub
    ELSE WithImports(sub.imp, StrType("tuple[" \o JoinStr(sub.m, ", ") \o "]"))

\* _matchPyType(varText, endPos, onlyLiteral)
_matchPyType(self, varText, endPos, onlyLiteral, d) ==
    IF varText = <<"P","y",":",":","O","b","j","e","c","t","(",")">> THEN StrType("object")
    ELSE IF varText \in {<<"P","y","_","N","o","n","e">>, <<"P",
        "y",":",":","N","o","n","e","(",")">>, <<"P","y","_","R",
        "e","t","u","r","n">>} THEN StrType("None")
    ELSE IF SwStart(varText, {<<"P","y",":",":","B","o","o","l",
        "e","a","n">>, <<"P","y","B","o","o","l","_","F","r","o",
        "m">>, <<"P","y",":",":","T","r","u","e">>, <<"P","y",":",":","F","a","l","s","e">>})
        THEN StrType("bool")
    ELSE IF SwStart(varText, {<<"P","y",":",":","L","o","n","g">>, <<"P",
        "y","L","o","n","g","_","F","r","o","m">>, <<"P","y",":",
        ":","I","n","t">>, <<"P","y","I","n","t","_","F","r","o","m">>,
                              <<"P","Y","I","N","T","_","F","R",
        "O","M","L","O","N","G">>, <<"i","n","t">>})
        THEN StrType("int")
    ELSE IF SwStart(varText, {<<"P","y",":",":","F","l","o","a",
        "t">>, <<"P","y","F","l","o","a","t","_","F","r","o","m">>}) THEN StrType("float")
    ELSE IF SwStart(varText, {<<"P","y",":",":","L","i","s","t">>, <<"P",
        "y","L","i","s","t","_","N","e","w">>}) THEN StrType("list")
    ELSE IF SwStart(varText, {<<"P","y",":",":","D","i","c","t">>, <<"P",
        "y","D","i","c","t","_","N","e","w">>}) THEN StrType("dict")
    ELSE IF SwStart(varText, {<<"P","y",":",":","C","a","l","l",
        "a","b","l","e">>}) THEN StrType("typing.Callable")
    ELSE IF SwStart(varText, {<<"P","y","B","y","t","e","A","r",
        "r","a","y","_","F","r","o","m">>}) THEN StrType("bytes")
    ELSE IF SwStart(varText, {<<"P","y",":",":","S","t","r","i",
        "n","g">>, <<"P","y","S","t","r","i","n","g","_","F","r",
        "o","m">>, <<"P","y","U","n","i","c","o","d","e","_","F","r","o","m">>,
                              <<"P","y",":",":","C","h","a","r">>, <<"P",
        "y","U","n","i","c","o","d","e","_","D","e","c","o","d","e","U","T","F","8">>,
                              <<"P","Y","S","T","R","I","N","G",
        "_","F","R","O","M","S","T","R","I","N","G">>, <<"Q","S","t","r","i","n","g">>})
        THEN StrType("str")
    ELSE IF SwContain(varText, {<<"P","y","_","T","r","u","e">>, <<"P",
        "y","_","F","a","l","s","e">>}) THEN StrType("bool")
    ELSE IF SwStart(varText, {<<"P","y",":",":","T","u","p","l","e","N">>})
        THEN IF onlyLiteral THEN StrType("tuple") ELSE getInnerType(StrType("tuple"))
    ELSE IF SwStart(varText, {<<"P","y","T","u","p","l","e","_","P","a","c","k">>})
        THEN TupleOf(TupleSubTypes(self, Islice1(genFuncArgs(varText)), endPos, d,
                                   UnionType(<<>>)))
    ELSE IF SwStart(varText, {<<"P","y",":",":","T","u","p","l",
        "e">>, <<"P","y","T","u","p","l","e","_","N","e","w">>}) THEN StrType("tuple")
    ELSE NoMatch

\* _matchSpecial(varText, endPos, onlyLiteral)
_matchSpecial(varText) ==
    IF varText = <<"g","e","t","D","o","c","u","m","e","n","t",
        "O","b","j","e","c","t","P","t","r","(",")">> THEN StrType("FreeCAD.DocumentObject")
    ELSE IF SwStart(varText, {<<"(","G","e","t","A","p","p","l",
        "i","c","a","t","i","o","n","(",")",".","o","p","e","n",
        "D","o","c","u","m","e","n","t","(">>})
        THEN StrType("FreeCAD.Document")
    ELSE NoMatch

\* _extractWidget(varText)
_extractWidget(varText) ==
    LET funArgs == genFuncArgs(varText)
        castType == removeQuote(funArgs[2])
    IN  IF Len(funArgs) = 1 THEN StrType("qtpy.QtWidgets.QWidget")
        ELSE IF Len(funArgs) = 2
            THEN IF StartsWith(castType, <<"Q">>)
                 THEN StrType("qtpy.QtWidgets." \o Text(castType))
                 ELSE StrType("qtpy.QtWidgets.QWidget")
        ELSE Raise("NotImplementedError")

\* _matchQt(varText, endPos, onlyLiteral)
_matchQt(varText) ==
    IF SwStart(varText, {<<"w","r","a","p",".","f","r","o","m",
        "Q","O","b","j","e","c","t","(">>}) THEN StrType("qtpy.QtCore.QObject")
    ELSE IF SwStart(varText, {<<"Q","W","i","d","g","e","t">>}) THEN StrType("qtpy.QtWidgets.QWidget")
    ELSE IF SwStart(varText, {<<"w","r","a","p",".","f","r","o",
        "m","Q","W","i","d","g","e","t","(">>}) THEN _extractWidget(varText)
    ELSE IF SwStart(varText, {<<"w","r","a","p",".","f","r","o",
        "m","Q","I","c","o","n","(">>}) THEN StrType("qtpy.QtGui.QIcon")
    ELSE NoMatch

\* _extractPivy(varText)
_extractPivy(varText) ==
    LET withoutPrefix == RemovePrefix(varText, <<"B","a","s","e",
        ":",":","I","n","t","e","r","p","r","e","t","e","r","(",
        ")",".","c","r","e","a","t","e","S","W","I","G","P","o","i","n","t","e","r","O","b","j">>)
        funArgs == genFuncArgs(withoutPrefix)
        module == removeQuote(funArgs[1])
        klass == removeQuote(funArgs[2])
    IN  IF Len(funArgs) < 2 THEN Raise("IndexError")
        ELSE IF ~StartsWith(module, <<"p","i","v","y">>) \/ Contains(klass, <<"(">>) THEN AnyValue
        ELSE StrType(Text(module) \o "."
                     \o Text(Strip(RemoveSuffix(RemovePrefix(klass, <<"_","p","_">>), <<"*">>))))

\* _extractBuildValue(varText, endPos)
_extractBuildValue(self, varText, endPos, d) ==
    LET funArgs == genFuncArgs(varText)
        pythonType == parsePyBuildValues(removeQuote(funArgs[1]))
    IN  IF Len(funArgs) < 1 THEN Raise("IndexError")
        ELSE IF pythonType # AnyValue THEN pythonType
        ELSE IF Len(funArgs) < 2 THEN Raise("IndexError")
        ELSE getExpressionType(self, Strip(funArgs[2]), endPos, TRUE, d)

\* self.requiredImports.add(mod), seen from the call that makes it
requiredImportsAdd(mod, r) == WithImports(<<mod>>, r)

\* _findClassWithModule with the `case self.className` branch lost
_findClassWithModule_noSelf(self, text, mustDiffer) ==
    LET cType == Split1(RemovePrefix(RemovePrefix(text, <<"P",
        "y",":",":","a","s","O","b","j","e","c","t","(","n","e","w"," ">>), <<"n","e","w"," ">>),
                        <<"(">>)[1]
        classWithModule == getClassWithModulesFromPointer(cType)
        cl == getClassName(classWithModule)
        mod == getModuleName(classWithModule)
    IN  IF cl = "PropertyComplexGeoData"
            THEN UnionType(UnionArgument(<<"Mesh.MeshObject", "Part.Shape",
                                           "Points.PointKernel">>))
        ELSE IF QText(classWithModule) # Text(mustDiffer) /\ mod # ""
            THEN requiredImportsAdd(mod, StrType(QText(classWithModule)))
        ELSE AnyValue

\* _findClassWithModule(text, mustDiffer)
_findClassWithModule(self, text, mustDiffer) ==
    LET cType == Split1(RemovePrefix(RemovePrefix(text, <<"P",
        "y",":",":","a","s","O","b","j","e","c","t","(","n","e","w"," ">>), <<"n","e","w"," ">>),
                        <<"(">>)[1]
        classWithModule == getClassWithModulesFromPointer(cType)
        cl == getClassName(classWithModule)
        mod == getModuleName(classWithModule)
    IN  IF cl = getClassName(self.classNameWithModule)
            THEN StrType(QText(self.classNameWithModule))
        ELSE IF cl = "PropertyComplexGeoData"
            THEN UnionType(UnionArgument(<<"Mesh.MeshObject", "Part.Shape",
                                           "Points.PointKernel">>))
        ELSE IF QText(classWithModule) # Text(mustDiffer) /\ mod # ""
            THEN requiredImportsAdd(mod, StrType(QText(classWithModule)))
        ELSE AnyValue

\* _matchMethodCall(varText, endPos, onlyLiteral)
_matchMethodCall(self, varText, endPos, d) ==
    IF varText = <<"t","y","p","e","-",">","t","p","_","n","e",
        "w","(","t","y","p","e",","," ","t","h","i","s",","," ","n","u","l","l","p","t","r",")">>
        THEN getExpressionType(self, <<"t","y","p","e">>, endPos, FALSE, d)
    ELSE IF varText \in {<<"t","h","i","s","-",">","G","e","t",
        "T","y","p","e","(",")">>, <<"I","n","c","R","e","f","(",")">>}
        THEN StrType(QText(self.classNameWithModule))
    ELSE IF EndsWith(varText, <<"-",">","c","o","p","y","P","y","O","b","j","e","c","t","(",")">>)
        THEN getExpressionType(self, RemoveSuffix(varText, <<"-",
        ">","c","o","p","y","P","y","O","b","j","e","c","t","(",")">>),
                               endPos, FALSE, d)
    ELSE IF EndsWith(varText, <<"-",">","c","_","s","t","r","(",")">>) THEN StrType("str")
    ELSE IF SwStart(varText, {<<"P","y","R","u","n","_","S","t","r","i","n","g">>}) THEN AnyValue
    ELSE IF SwStart(varText, {<<"B","a","s","e",":",":","I","n",
        "t","e","r","p","r","e","t","e","r","(",")",".","c","r",
        "e","a","t","e","S","W","I","G","P","o","i","n","t","e","r","O","b","j","(">>})
        THEN _extractPivy(varText)
    ELSE IF SwStart(varText, {<<"n","e","w"," ">>, <<"P","y",":",
        ":","a","s","O","b","j","e","c","t","(","n","e","w"," ">>})
        THEN _findClassWithModule(self, varText, <<>>)
    ELSE IF SwStart(varText, {<<"P","y","_","B","u","i","l","d","V","a","l","u","e","(","\"">>})
        THEN _extractBuildValue(self, varText, endPos, d)
    ELSE IF SwStart(varText, {<<"P","y",":",":","a","s","O","b",
        "j","e","c","t","(">>, <<"P","y",":",":","O","b","j","e",
        "c","t","(">>, <<"c","r","e","a","t","e","P","y","O","b","j","e","c","t","(">>})
        THEN LET funArgs == genFuncArgs(varText)
             IN  IF funArgs = <<>> THEN Raise("StopIteration")
                 ELSE getExpressionType(self, funArgs[1], endPos, FALSE, d)
    ELSE IF EndsWith(varText, <<"P","y">>) /\ IsIdentifier(varText) /\ varText[1] \in Upper
        THEN _findClassWithModule(self, varText, <<>>)
    ELSE IF SwEnd(varText, {<<"-",">","g","e","t","P","y","O",
        "b","j","e","c","t","(",")">>, <<".","g","e","t","P","y","O","b","j","e","c","t","(",")">>})
        THEN LET cut == RemoveSuffix(RemoveSuffix(RemoveSuffix(
                            RemoveSuffix(varText, <<"g","e","t",
        "P","y","O","b","j","e","c","t","(",")">>), <<".">>), <<"-",">">>), <<")">>)
             IN  getExpressionType(self, Slice(cut, RFind(cut, <<"(">>) + 1, Len(cut)),
                                   endPos, FALSE, d)
    ELSE NoMatch

\* f'list[{innerClass}]'
ListOf(innerClass) ==
    IF innerClass.k = "raise" THEN innerClass
    ELSE WithImports(innerClass.imp, StrType("list[" \o TypeStr(innerClass) \o "]"))

\* _matchFreeCAD(varText, endPos, onlyLiteral)
_matchFreeCAD(self, varText, endPos, d) ==
    IF SwStart(varText, {<<"P","y",":",":","B","o","u","n","d",
        "i","n","g","B","o","x">>}) THEN StrType("FreeCAD.BoundBox")
    ELSE IF SwStart(varText, {<<"P","y",":",":","M","a","t","r",
        "i","x">>}) THEN StrType("FreeCAD.Matrix")
    ELSE IF SwStart(varText, {<<"P","y",":",":","R","o","t","a",
        "t","i","o","n">>}) THEN StrType("FreeCAD.Rotation")
    ELSE IF SwStart(varText, {<<"P","y",":",":","P","l","a","c",
        "e","m","e","n","t">>}) THEN StrType("FreeCAD.Placement")
    ELSE IF SwStart(varText, {<<"P","y",":",":","V","e","c","t",
        "o","r","2","d">>, <<"B","a","s","e",":",":","V","e","c",
        "t","o","r","2","d","P","y",":",":","c","r","e","a","t","e","(">>})
        THEN StrType("FreeCAD.Vector2d")
    ELSE IF SwStart(varText, {<<"P","y",":",":","V","e","c","t",
        "o","r">>}) THEN StrType("FreeCAD.Vector")
    ELSE IF SwStart(varText, {<<"M","a","i","n","W","i","n","d",
        "o","w","P","y",":",":","c","r","e","a","t","e","W","r","a","p","p","e","r">>})
        THEN StrType("FreeCADGui.MainWindowPy")
    ELSE IF SwStart(varText, {<<"s","h","a","p","e","2","p","y",
        "s","h","a","p","e">>, <<"P","a","r","t",":",":","s","h",
        "a","p","e","2","p","y","s","h","a","p","e">>})
        THEN StrType("Part.Shape")
    ELSE IF SwStart(varText, {<<"g","e","t","S","h","a","p","e","s","<">>})
        THEN ListOf(getExpressionType(
                        self, Split(RemovePrefix(varText, <<"g",
        "e","t","S","h","a","p","e","s","<">>), <<">">>)[1],
                        endPos, FALSE, d))
    ELSE NoMatch

\* _matchFinalPossibilities(varText, endPos, onlyLiteral)
_matchFinalPossibilities(self, varText, endPos, onlyLiteral, d) ==
    IF onlyLiteral
        THEN LET parts == Split(varText, <<":",":">>)
             IN  IF \A i \in 1..Len(parts) : IsIdentifier(parts[i])
                 THEN _findClassWithModule(
                          self,
                          IF EndsWith(varText, <<"P","y">>) THEN varText ELSE varText \o <<"P",
        "y">>,
                          varText)
                 ELSE AnyValue
    ELSE IF IsIdentifier(varText) THEN _findVariableType(self, varText, endPos, d)
    ELSE IF StartsWith(varText, <<"(">>) /\ EndsWith(varText, <<")">>)
        THEN getExpressionType(self, RemoveSuffix(RemovePrefix(varText, <<"(">>), <<")">>),
                               endPos, onlyLiteral, d)
    ELSE IF Contains(varText, <<"=","=">>) THEN StrType("bool")
    ELSE AnyValue

\* _extractTypeFromMatch(match): the declared type, <<>> when there is none
_extractTypeFromMatch(match) ==
    LET v == match.type
        inner == IF Contains(v, <<"<">>) /\ Contains(v, <<">">>)
                 THEN Split1(Split1(v, <<"<">>)[2], <<">">>)[1]
                 ELSE v
    IN  IF v = <<>> \/ v \in {<<"r","e","t","u","r","n">>, <<"e","l","s","e">>} THEN <<>>
        ELSE Strip(RemoveSuffix(Strip(RemovePrefix(inner, <<"c","o","n","s","t">>)), <<"*">>))

\* _genVariableTypeFromRegex(regex, startPos, endPos, onlyLiteral): the types the
\* generator yields for the group-1 texts `texts`, collected in `done`; an exception
\* of getExpressionType ends it
RECURSIVE _genVariableTypeFromRegex(_, _, _, _, _, _)
YieldVariableType(self, texts, endPos, onlyLiteral, d, done, varType) ==
    IF varType.k = "raise" THEN WithImports(done.imp, varType)
    ELSE _genVariableTypeFromRegex(
             self, Tail(texts), endPos, onlyLiteral, d,
             [done EXCEPT !.m = @ \o (CASE varType.k = "union" -> varType.m
                                        [] varType.k = "str" -> <<varType.v>>
                                        [] OTHER -> <<>>),
                          !.imp = @ \o varType.imp])
_genVariableTypeFromRegex(self, texts, endPos, onlyLiteral, d, done) ==
    IF texts = <<>> THEN done
    ELSE YieldVariableType(self, texts, endPos, onlyLiteral, d, done,
                           getExpressionType(self, Head(texts), endPos, onlyLiteral, d))

\* a scan without endpos: it sees the whole body
BodyUpTo_whole(self, endPos) == self.functionBody

\* the body text a scan with endpos=endPos sees
BodyUpTo(self, endPos) ==
    Slice(self.functionBody, 0,
          IF endPos < Len(self.functionBody) THEN endPos ELSE Len(self.functionBody))

\* _getRetTypeFromAssignment(variableName, startPos, endPos)
UnionOrAny(gen) ==
    IF gen.k = "raise" THEN gen
    ELSE IF UnionArgument(gen.m) # <<>>
        THEN WithImports(gen.imp, UnionType(UnionArgument(gen.m)))
    ELSE WithImports(gen.imp, AnyValue)
Group1(matches) == [i \in 1..Len(matches) |-> matches[i].text]
_getRetTypeFromAssignment(self, variableName, startPos, endPos, d) ==
    UnionOrAny(_genVariableTypeFromRegex(
                   self, Group1(AssignFindIter(BodyUpTo(self, endPos), variableName, startPos)),
                   endPos, FALSE, d, UnionType(<<>>)))

\* the declared types _findVariableType refines from the initializer
PlaceholderTypes == {<<"a","u","t","o">>, <<"P","y","O","b","j",
        "e","c","t">>, <<"P","y",":",":","O","b","j","e","c","t">>, <<"P",
        "y","T","y","p","e","O","b","j","e","c","t">>,
                     <<"P","y","O","b","j","e","c","t","B","a","s","e">>}

\* the body of the loop of _findVariableType for a match that is a declaration:
\* the type the declaration gives, then its refinement from the assignments
FirstArgType(self, endPos, d, funArgs) ==
    IF funArgs = <<>> THEN Raise("IndexError")
    ELSE getExpressionType(self, funArgs[1], endPos, FALSE, d)
DeclaredType(self, endPos, d, declarationMatch, varTypeDec) ==
    IF varTypeDec \in PlaceholderTypes
    THEN IF declarationMatch.val # <<>>
            THEN getExpressionType(self, declarationMatch.val, endPos, TRUE, d)
         ELSE IF varTypeDec # <<"a","u","t","o">> /\ declarationMatch.args # <<>>
            THEN FirstArgType(self, endPos, d,
                              generateExpressionUntilChar(declarationMatch.args, 0))
         ELSE AnyValue
    ELSE getExpressionType(self, varTypeDec, endPos, TRUE, d)
\* the `if isNone: match varType` statement
FoldNone(assigned) ==
    IF assigned.k = "raise" THEN assigned
    ELSE IF assigned.k = "union" THEN [assigned EXCEPT !.m = OrderedAdd(@, <<"None">>)]
    ELSE [assigned EXCEPT !.k = "str", !.v = "None"]
InnerTypeOf(varType) == IF varType.k = "str" THEN getInnerType(varType) ELSE varType
ResolveDeclaration(self, variableName, endPos, d, declarationMatch, declared) ==
    IF declared.k = "str" /\ declared.v = "None"
        THEN InnerTypeOf(WithImports(declared.imp,
                 FoldNone(_getRetTypeFromAssignment(self, variableName,
                                                    declarationMatch.end, endPos, d))))
    ELSE IF declared.k = "any"
        THEN InnerTypeOf(WithImports(declared.imp,
                 _getRetTypeFromAssignment(self, variableName, declarationMatch.end,
                                           endPos, d)))
    ELSE InnerTypeOf(declared)

\* the loop of _findVariableType without reversed(): the earliest declaration wins
DeclarationLoop_forward(self, variableName, endPos, d, matches, i) ==
    LET decls == {j \in 1..Len(matches) :
                      ~matches[j].directive /\ _extractTypeFromMatch(matches[j]) # <<>>}
    IN  IF decls = {} THEN getExpressionType(self, variableName, endPos, TRUE, d)
        ELSE ResolveDeclaration(self, variableName, endPos, d, matches[MinOf(decls)],
                                DeclaredType(self, endPos, d, matches[MinOf(decls)],
                                             _extractTypeFromMatch(matches[MinOf(decls)])))

\* for declarationMatch in reversed(matches): matches[i] first, then the earlier ones
RECURSIVE DeclarationLoop(_, _, _, _, _, _)
DeclarationLoop(self, variableName, endPos, d, matches, i) ==
    IF i = 0 THEN getExpressionType(self, variableName, endPos, TRUE, d)
    ELSE IF matches[i].directive \/ _extractTypeFromMatch(matches[i]) = <<>>
        THEN DeclarationLoop(self, variableName, endPos, d, matches, i - 1)
    ELSE ResolveDeclaration(self, variableName, endPos, d, matches[i],
                            DeclaredType(self, endPos, d, matches[i],
                                         _extractTypeFromMatch(matches[i])))

ReversedLoop(self, variableName, endPos, d, matches) ==
    DeclarationLoop(self, variableName, endPos, d, matches, Len(matches))

\* _findVariableType(variableName, endPos)
_findVariableType(self, variableName, endPos, d) ==
    IF variableName = <<"t","h","i","s">> THEN StrType(QText(self.classNameWithModule))
    ELSE ReversedLoop(self, variableName, endPos, d,
                      DecFindIter(BodyUpTo(self, endPos), variableName))

\* `if (result := method(...)) is not None: return result`, else what follows
OrElse(matched, following) == IF matched # NoMatch THEN matched ELSE following

\* the resolver chain with the fallback resolver tried ahead of the builder rules
ResolverChain_fallbackFirst(self, sw, endPos, onlyLiteral, d) ==
    OrElse(_matchLiterals(sw, onlyLiteral),
    OrElse(_matchFinalPossibilities(self, sw, endPos, onlyLiteral, d),
    OrElse(_matchPyType(self, sw, endPos, onlyLiteral, d),
           AnyValue)))

\* the resolver chain with the domain-object tables tried ahead of the GUI-toolkit and
\* method-call rules
ResolverChain_domainFirst(self, sw, endPos, onlyLiteral, d) ==
    OrElse(_matchLiterals(sw, onlyLiteral),
    OrElse(_matchPyType(self, sw, endPos, onlyLiteral, d),
    OrElse(_matchSpecial(sw),
    OrElse(_matchFreeCAD(self, sw, endPos, d),
    OrElse(_matchQt(sw),
    OrElse(_matchMethodCall(self, sw, endPos, d),
    OrElse(_matchFinalPossibilities(self, sw, endPos, onlyLiteral, d),
           AnyValue)))))))

\* the resolver chain of getExpressionType: the first result that is not None
ResolverChain(self, sw, endPos, onlyLiteral, d) ==
    OrElse(_matchLiterals(sw, onlyLiteral),
    OrElse(_matchPyType(self, sw, endPos, onlyLiteral, d),
    OrElse(_matchSpecial(sw),
    OrElse(_matchQt(sw),
    OrElse(_matchMethodCall(self, sw, endPos, d),
    OrElse(_matchFreeCAD(self, sw, endPos, d),
    OrElse(_matchFinalPossibilities(self, sw, endPos, onlyLiteral, d),
           AnyValue)))))))

\* getExpressionType(varText, endPos, onlyLiteral); with no nested call left the
\* interpreter raises RecursionError
getExpressionType(self, varText, endPos, onlyLiteral, d) ==
    IF d = 0 THEN Raise("RecursionError")
    ELSE ResolverChain(self, _removeSuffix(_removePrefixes(varText)), endPos,
                       onlyLiteral, d - 1)

(***************************************************************************)
(* ReturnTypeConverter (return_type_converter/full.py)                     *)
(***************************************************************************)
\* _genReturnType(): the types yielded for the return statements `returns`,
\* collected in `done`; InvalidReturnType skips the statement, any other exception
\* ends the generator
RECURSIVE _genReturnType(_, _, _, _)
\* the loop body of _genReturnType without `yield from`: a union is yielded whole
YieldReturnType_nested(self, returns, d, done, retType) ==
    IF retType.k = "raise" /\ retType.v = "InvalidReturnType"
        THEN _genReturnType(self, Tail(returns), d, [done EXCEPT !.imp = @ \o retType.imp])
    ELSE IF retType.k = "raise" THEN WithImports(done.imp, retType)
    ELSE _genReturnType(self, Tail(returns), d,
             [done EXCEPT !.m = @ \o <<TypeStr(retType)>>, !.imp = @ \o retType.imp])

\* the loop body of _genReturnType without the try/except: InvalidReturnType ends
\* the enumeration and reaches the caller
YieldReturnType_uncaught(self, returns, d, done, retType) ==
    IF retType.k = "raise" THEN WithImports(done.imp, retType)
    ELSE _genReturnType(self, Tail(returns), d,
             [done EXCEPT !.m = @ \o (IF retType.k = "union" THEN retType.m
                                      ELSE <<TypeStr(retType)>>),
                          !.imp = @ \o retType.imp])

\* the loop body of _genReturnType for the type of one return statement
YieldReturnType(self, returns, d, done, retType) ==
    IF retType.k = "raise" /\ retType.v = "InvalidReturnType"
        THEN _genReturnType(self, Tail(returns), d, [done EXCEPT !.imp = @ \o retType.imp])
    ELSE IF retType.k = "raise" THEN WithImports(done.imp, retType)
    ELSE _genReturnType(self, Tail(returns), d,
             [done EXCEPT !.m = @ \o (IF retType.k = "union" THEN retType.m
                                      ELSE <<TypeStr(retType)>>),
                          !.imp = @ \o retType.imp])
_genReturnType(self, returns, d, done) ==
    IF returns = <<>> THEN done
    ELSE YieldReturnType(self, returns, d, done,
                         getExpressionType(self, Head(returns).text, Head(returns).end,
                                           FALSE, d))

\* the number of nested getExpressionType calls a top-level call may make
MaxDepth == 4

\* RawRepr(*UnionArguments(gen)): the types the generator yielded, each once; an
\* exception of the generator comes out of the unpacking
RawRepr(gen) == IF gen.k = "raise" THEN gen ELSE [gen EXCEPT !.m = UnionArgument(@)]
\* getReturnType(); returnTypes.imports holds the modules of the yielded types, which
\* the nested getExpressionType calls have added to requiredImports already
getReturnType(self) ==
    RawRepr(_genReturnType(self, ReturnFindIter(self.functionBody), MaxDepth,
                           UnionType(<<>>)))

\* getStrReturnType(): str(ret) unless ret is Signature.empty
StrOrObject(ret) ==
    IF ret.k = "raise" THEN ret
    ELSE IF ret.m = <<>> THEN WithImports(ret.imp, StrType("object"))
    ELSE WithImports(ret.imp, StrType(TypeStr(ret)))
getStrReturnType(self) == StrOrObject(getReturnType(self))

(***************************************************************************)
(* FreecadStubGeneratorFromCppClass._getPythonClass (from_cpp/klass.py)    *)
(***************************************************************************)
_getPythonClass(baseClass) ==
    LET classWithModule ==
            IF baseClass = <<"Q","M","a","i","n","W","i","n","d",
        "o","w">> THEN QName("qtpy.QtWidgets", "QMainWindow")
            ELSE getClassWithModulesFromPointer(baseClass)
        mod == getModuleName(classWithModule)
    IN  IF baseClass # <<"Q","M","a","i","n","W","i","n","d","o",
        "w">> /\ StartsWith(baseClass, <<"Q">>)
            THEN Raise("ValueError")
        ELSE IF baseClass # <<"Q","M","a","i","n","W","i","n",
        "d","o","w">> /\ ~EndsWith(baseClass, <<"P","y">>) THEN NoMatch
        ELSE IF mod # "" THEN requiredImportsAdd(mod, StrType(QText(classWithModule)))
        ELSE StrType(QText(classWithModule))

(***************************************************************************)
(* The inputs: expression fragments, function bodies, classes.             *)
(***************************************************************************)
\* f(arg)
CallOf(f, arg) == f \o <<"(">> \o arg \o <<")">>

\* decorations _removePrefixes and _removeSuffix strip from a fragment
Decorated(e) ==
    {e, <<" ">> \o e \o <<" ">>, <<"c","o","n","s","t"," ">> \o e, <<"*">> \o e, e \o <<"*">>, e \o <<"&">>,
     CallOf(<<"n","e","w","_","r","e","f","e","r","e","n","c",
        "e","_","t","o">>, e), CallOf(<<"P","y",":",":","n","e",
        "w","_","r","e","f","e","r","e","n","c","e","_","t","o">>, e)}

SentinelFragments == UNION {Decorated(e) : e \in Sentinels} \cup Decorated(<<>>)

\* builder calls: helper name and argument text
BuilderNames ==
    {<<"P","y",":",":","B","o","o","l","e","a","n">>, <<"P","y",
        "B","o","o","l","_","F","r","o","m","L","o","n","g">>, <<"P",
        "y",":",":","L","o","n","g">>, <<"P","y","L","o","n","g",
        "_","F","r","o","m","L","o","n","g">>, <<"P","y",":",":","I","n","t">>,
     <<"P","y",":",":","F","l","o","a","t">>, <<"P","y","F","l",
        "o","a","t","_","F","r","o","m","D","o","u","b","l","e">>, <<"P",
        "y",":",":","S","t","r","i","n","g">>, <<"P","y","U","n",
        "i","c","o","d","e","_","F","r","o","m","S","t","r","i","n","g">>,
     <<"P","y",":",":","L","i","s","t">>, <<"P","y","L","i","s",
        "t","_","N","e","w">>, <<"P","y",":",":","D","i","c","t">>, <<"P",
        "y","D","i","c","t","_","N","e","w">>}
BuilderArgs == {<<"x"," ",">"," ","0">>, <<"P","y","_","T","r","u","e">>}
BuilderFragments == {CallOf(b, a) : b \in BuilderNames, a \in BuilderArgs}

\* PyTuple_Pack(N, e1, ..., eN)
RECURSIVE JoinText(_, _)
JoinText(parts, sep) ==
    IF parts = <<>> THEN <<>>
    ELSE IF Len(parts) = 1 THEN parts[1]
    ELSE parts[1] \o sep \o JoinText(Tail(parts), sep)
Numeral(n) == <<CHOOSE c \in Digit : \A i \in 0..9 :
                    (i = n) <=> (c = <<"0","1","2","3","4","5","6","7","8","9">>[i + 1])>>
TuplePack(es) == CallOf(<<"P","y","T","u","p","l","e","_","P",
        "a","c","k">>, JoinText(<<Numeral(Len(es))>> \o es, <<","," ">>))

TupleElements ==
    {<<"P","y","F","l","o","a","t","_","F","r","o","m","D","o",
        "u","b","l","e","(","a",")">>, <<"P","y",":",":","S","t",
        "r","i","n","g","(","s",")">>, <<"P","y","_","T","r","u",
        "e">>, <<"n","e","w"," ","B","a","s","e",":",":","M","a",
        "t","r","i","x","P","y","(","m",")">>}
MaxPack == 2
TuplePacks ==
    UNION {{TuplePack(es) : es \in [1..n -> TupleElements]} : n \in 1..MaxPack}

\* new X(args) and Py::asObject(new X(args))
NewOf(ptr) == CallOf(<<"n","e","w"," ">> \o ptr, <<"v">>)
AsObjectNewOf(ptr) == CallOf(<<"P","y",":",":","a","s","O","b","j","e","c","t">>, NewOf(ptr))
ClassPointers == DOMAIN ClassRegistry \cup {<<"G","u","i",":",
        ":","U","n","k","n","o","w","n","P","y">>}
NewFragments == {NewOf(c) : c \in ClassPointers} \cup {AsObjectNewOf(c) : c \in ClassPointers}

OtherFragments ==
    {<<"w","r","a","p",".","f","r","o","m","Q","W","i","d","g",
        "e","t","(","w",")">>, <<"w","r","a","p",".","f","r","o",
        "m","Q","W","i","d","g","e","t","(","w",","," ","\"","Q","D","i","a","l","o","g","\"",")">>,
     <<"B","a","s","e",":",":","I","n","t","e","r","p","r","e",
        "t","e","r","(",")",".","c","r","e","a","t","e","S","W",
        "I","G","P","o","i","n","t","e","r","O","b","j","(","\"",
        "p","i","v","y",".","c","o","i","n","\"",","," ","\"",
        "_","p","_","S","o","N","o","d","e"," ","*","\"",","," ","p","t","r",","," ","0",")">>,
     <<"P","y","_","B","u","i","l","d","V","a","l","u","e","(",
        "\"","i","\"",","," ","n",")">>, <<"P","y","_","B","u",
        "i","l","d","V","a","l","u","e","(","\"","O","\"",","," ","P","y","_","N","o","n","e",")">>,
     <<"P","y","_","B","u","i","l","d","V","a","l","u","e","(",
        "\"","O","\"",","," ","N","U","L","L",")">>,
     <<"P","y",":",":","V","e","c","t","o","r","(","v",")">>, <<"g",
        "e","t","S","h","a","p","e","s","<","T","o","p","o","S",
        "h","a","p","e","P","y",">","(","x",")">>, <<"V","e","c","t","o","r","P","y">>,
     <<"c","o","m","p","u","t","e","(","a",","," ","b",")">>, <<"a",
        " ","=","="," ","b">>, <<"(","P","y",":",":","L","o","n",
        "g","(","1",")",")">>, <<"s","-",">","c","_","s","t","r","(",")">>,
     <<"v","e","c","-",">","g","e","t","P","y","O","b","j","e",
        "c","t","(",")">>, <<"t","h","i","s">>, <<"P","y",":",
        ":","O","b","j","e","c","t","(","P","y","_","N","o","n",
        "e",")">>, <<"P","y",":",":","N","o","n","e","(",")">>,
     <<"P","y",":",":","V","e","c","t","o","r","(","v",")","-",
        ">","c","_","s","t","r","(",")">>, <<"P","y",":",":","M",
        "a","t","r","i","x","(","m",")","-",">","g","e","t","P",
        "y","O","b","j","e","c","t","(",")">>,
     <<"g","e","t","D","o","c","u","m","e","n","t","O","b","j","e","c","t","P","t","r","(",")">>}

StandaloneFragments ==
    SentinelFragments \cup BuilderFragments \cup TuplePacks \cup NewFragments
    \cup OtherFragments

FunctionBodies ==
    {<<>>,
     <<"P","y",":",":","L","o","n","g"," ","x","(","1",")",";",
        " ","P","y",":",":","F","l","o","a","t"," ","x","(","2",
        ".","0",")",";"," ","r","e","t","u","r","n"," ","x",";">>,
     <<"P","y",":",":","F","l","o","a","t"," ","x","(","1",".",
        "0",")",";","\n","#","u","n","d","e","f"," ","x",";","\n",
        " ","r","e","t","u","r","n"," ","x",";">>,
     <<"P","y",":",":","F","l","o","a","t"," ","x","(","1",".",
        "0",")",";"," ","i","f"," ","(","c",")"," ","y"," ","=",
        " ","1",";"," ","e","l","s","e"," ","x"," ","="," ","2",
        ";"," ","r","e","t","u","r","n"," ","x",";">>,
     <<"P","y",":",":","F","l","o","a","t"," ","x","(","1",".",
        "0",")",";"," ","i","f"," ","(","c",")"," ","r","e","t",
        "u","r","n"," ","n","e","w","_","r","e","f","e","r","e",
        "n","c","e","_","t","o","(","y",")",";"," ","e","l","s",
        "e"," ","r","e","t","u","r","n"," ","x",";">>,
     <<"P","y","O","b","j","e","c","t","*"," ","x"," ","="," ",
        "n","e","w"," ","B","a","s","e",":",":","M","a","t","r",
        "i","x","P","y","(","m",")",";"," ","P","y","O","b","j",
        "e","c","t","*"," ","x"," ","="," ","n","e","w"," ","P",
        "a","r","t",":",":","T","o","p","o","S","h","a","p","e",
        "P","y","(","s",")",";"," ","r","e","t","u","r","n"," ","x",";">>,
     <<"i","f"," ","(","a",")"," ","r","e","t","u","r","n"," ",
        "P","y",":",":","L","o","n","g","(","1",")",";"," ","i",
        "f"," ","(","b",")"," ","r","e","t","u","r","n"," ","P",
        "y",":",":","F","l","o","a","t","(","2",".","0",")",";",
        " ","r","e","t","u","r","n"," ","P","y","L","o","n","g",
        "_","F","r","o","m","L","o","n","g","(","3",")",";">>,
     <<"r","e","t","u","r","n"," ","P","y",":",":","B","o","o",
        "l","e","a","n","(","x"," ",">"," ","0",")",";">>,
     <<"i","f"," ","(","!","p",")"," ","r","e","t","u","r","n",
        " ","N","U","L","L",";"," ","r","e","t","u","r","n"," ",
        "P","y",":",":","B","o","o","l","e","a","n","(","x"," ",">"," ","0",")",";">>,
     <<"i","f"," ","(","a",")"," ","r","e","t","u","r","n"," ",
        "P","y",":",":","S","t","r","i","n","g","(","s",")",";",
        " ","i","f"," ","(","b",")"," ","r","e","t","u","r","n",
        " ","0",";"," ","r","e","t","u","r","n"," ","n","u","l","l","p","t","r",";">>,
     <<"i","f"," ","(","a",")"," ","r","e","t","u","r","n"," ",
        "n","e","w"," ","P","a","r","t",":",":","T","o","p","o",
        "S","h","a","p","e","P","y","(","s",")",";"," ","i","f",
        " ","(","b",")"," ","r","e","t","u","r","n"," ","n","e",
        "w"," ","P","r","o","p","e","r","t","y","C","o","m","p",
        "l","e","x","G","e","o","D","a","t","a","(","d",")",";",
        " ","r","e","t","u","r","n"," ","n","e","w"," ","B","a",
        "s","e",":",":","V","e","c","t","o","r","P","y","(","v",")",";">>,
     <<"i","f"," ","(","a",")"," ","r","e","t","u","r","n"," ",
        "P","y","T","u","p","l","e","_","P","a","c","k","(","2",
        ","," ","n","e","w"," ","P","a","r","t",":",":","T","o",
        "p","o","S","h","a","p","e","P","y","(","s",")",","," ",
        "N","U","L","L",")",";"," ","r","e","t","u","r","n"," ",
        "c","o","m","p","u","t","e","(","a",")",";">>,
     <<"i","f"," ","(","a",")"," ","r","e","t","u","r","n"," ",
        "w","r","a","p",".","f","r","o","m","Q","W","i","d","g",
        "e","t","(","w",","," ","t",","," ","p",")",";"," ","r",
        "e","t","u","r","n"," ","P","y",":",":","L","o","n","g","(","1",")",";">>,
     <<"P","y","O","b","j","e","c","t","*"," ","x",";"," ","P",
        "y","O","b","j","e","c","t","*"," ","y",";"," ","x"," ",
        "="," ","y",";"," ","y"," ","="," ","x",";"," ","r","e","t","u","r","n"," ","x",";">>,
     <<"P","y","O","b","j","e","c","t","*"," ","x",";"," ","x",
        " ","="," ","N","U","L","L",";"," ","r","e","t","u","r","n"," ","x",";">>,
     <<"P","y","O","b","j","e","c","t","*"," ","x"," ","="," ",
        "P","y","_","N","o","n","e",";"," ","x"," ","="," ","P",
        "y",":",":","F","l","o","a","t","(","1",".","0",")",";",
        " ","x"," ","="," ","P","y",":",":","L","o","n","g","(",
        "2",")",";"," ","r","e","t","u","r","n"," ","x",";">>,
     <<"P","y","O","b","j","e","c","t","*"," ","x",";"," ","x",
        " ","="," ","P","y",":",":","L","o","n","g","(","1",")",
        ";"," ","r","e","t","u","r","n"," ","x",";">>,
     <<"P","y","O","b","j","e","c","t","*"," ","x",";"," ","x",
        " ","="," ","P","y",":",":","L","o","n","g","(","1",")",
        ";"," ","r","e","t","u","r","n"," ","x",";"," ","x"," ",
        "="," ","P","y",":",":","F","l","o","a","t","(","2",".",
        "0",")",";"," ","r","e","t","u","r","n"," ","x",";">>,
     <<"P","y",":",":","L","o","n","g"," ","x","(","1",")",";",
        " ","r","e","t","u","r","n"," ","x",";">>,
     <<"P","y",":",":","L","o","n","g"," ","x","(","1",")",";",
        " ","r","e","t","u","r","n"," ","x",";"," ","P","y",":",
        ":","F","l","o","a","t"," ","x","(","2",".","0",")",";",
        " ","r","e","t","u","r","n"," ","x",";">>,
     <<"P","y",":",":","F","l","o","a","t"," ","i","n","t","e",
        "r","v","a","l","(","1",".","0",")",";"," ","r","e","t",
        "u","r","n"," ","i","n","t","e","r","v","a","l",";">>,
     <<"P","y","O","b","j","e","c","t","*"," ","x",";"," ","m",
        "a","x"," ","="," ","P","y",":",":","L","o","n","g","(",
        "1",")",";"," ","r","e","t","u","r","n"," ","x",";">>,
     <<"P","y","O","b","j","e","c","t","*"," ","x",";"," ","x",
        " ","=","="," ","P","y","_","T","r","u","e",";"," ","r","e","t","u","r","n"," ","x",";">>}

CurrentClasses == {QName("FreeCAD", "Vector"), QName("Part", "Shape")}

BaseClasses == {<<"Q","M","a","i","n","W","i","n","d","o","w">>, <<"Q",
        "D","i","a","l","o","g">>, <<"B","a","s","e",":",":","V",
        "e","c","t","o","r","P","y">>, <<"G","u","i",":",":","U","n","k","n","o","w","n","P","y">>,
                <<"s","t","d",":",":","v","e","c","t","o","r","<","i","n","t",">">>}

\* the expressions and use offsets a converter is asked about: those of the return
\* statements of its body, or the free-standing fragments when it has no body
Uses(self) ==
    IF self.functionBody = <<>> THEN {[text |-> f, end |-> 0] : f \in StandaloneFragments}
    ELSE LET returns == ReturnFindIter(self.functionBody)
         IN  {returns[i] : i \in 1..Len(returns)}

(***************************************************************************)
(* The generation unit as a state machine.                                 *)
(***************************************************************************)
NoCall == [op |-> "none", varText |-> <<>>, endPos |-> 0, onlyLiteral |-> FALSE,
           before |-> <<>>]

Converters == [functionBody : FunctionBodies, classNameWithModule : CurrentClasses]

\* no file read, no generator created, no generator operation made
Absent == [exists |-> FALSE, content |-> <<>>]
NoFiles == [decl |-> Absent, imp |-> Absent, cpp |-> Absent, twin |-> Absent,
            header |-> Absent]
NoGenerator == [kind |-> "none", stem |-> <<>>, impContent |-> <<>>]
NoEmit == [op |-> "none"]

\* BaseGenerator.__init__ and the first ReturnTypeConverter of the unit
Init ==
    /\ conv \in Converters
    /\ requiredImports = <<>>
    /\ pc = "ready"
    /\ call = NoCall
    /\ result = NoMatch
    /\ calls = 0
    /\ files = NoFiles
    /\ generator = NoGenerator
    /\ emitted = NoEmit

\* requiredImports assigned instead of updated
requiredImportsUpdate_assign(imports, added) == added

\* self.requiredImports.add(mod) / .update(imports) of the calls made
requiredImportsUpdate(imports, added) == OrderedAdd(imports, added)

Returned(op, varText, endPos, onlyLiteral, r) ==
    /\ call' = [op |-> op, varText |-> varText, endPos |-> endPos,
                onlyLiteral |-> onlyLiteral, before |-> requiredImports]
    /\ result' = r
    /\ requiredImports' = requiredImportsUpdate(requiredImports, r.imp)
    /\ pc' = "done"
    /\ calls' = calls + 1
    /\ UNCHANGED <<conv, files, generator, emitted>>

GetExpressionType ==
    /\ pc = "ready"
    /\ \E use \in Uses(conv), onlyLiteral \in BOOLEAN :
           Returned("getExpressionType", use.text, use.end, onlyLiteral,
                    getExpressionType(conv, use.text, use.end, onlyLiteral, MaxDepth))

GetReturnType ==
    /\ pc = "ready"
    /\ conv.functionBody # <<>>
    /\ Returned("getReturnType", <<>>, 0, FALSE, getReturnType(conv))

GetStrReturnType ==
    /\ pc = "ready"
    /\ conv.functionBody # <<>>
    /\ Returned("getStrReturnType", <<>>, 0, FALSE, getStrReturnType(conv))

GetPythonClass ==
    /\ pc = "ready"
    /\ \E baseClass \in BaseClasses :
           Returned("_getPythonClass", baseClass, 0, FALSE, _getPythonClass(baseClass))

\* the number of conversions followed within one generation unit
MaxCalls == 2

\* ReturnTypeConverter(functionBody, requiredImports, classNameWithModule): the next
\* converter of the unit shares its requiredImports and its class
NewConverter ==
    /\ pc = "done"
    /\ calls < MaxCalls
    /\ conv' \in {c \in Converters : c.classNameWithModule = conv.classNameWithModule}
    /\ pc' = "ready"
    /\ call' = NoCall
    /\ result' = NoMatch
    /\ UNCHANGED <<requiredImports, calls, files, generator, emitted>>

\* BaseGenerator.__init__: the next generation unit starts with no required imports
StartUnit ==
    /\ pc = "done"
    /\ requiredImports' = <<>>
    /\ conv' \in Converters
    /\ pc' = "ready"
    /\ call' = NoCall
    /\ result' = NoMatch
    /\ calls' = 0
    /\ UNCHANGED <<files, generator, emitted>>

Next ==
    \/ GetExpressionType
    \/ GetReturnType
    \/ GetStrReturnType
    \/ GetPythonClass
    \/ NewConverter
    \/ StartUnit

Spec == Init /\ [][Next]_vars

(***************************************************************************)
(* XmlMethodGenerator (from_xml/method.py).  A parameter is a record of    *)
(* name, annotation and default ("" where there is none); a signature is   *)
(* a SelfSignature: parameters, return_annotation, exceptions.             *)
(***************************************************************************)
Param(name, annotation, default) ==
    [name |-> name, annotation |-> annotation, default |-> default]
SELF_PARAM == Param("self", "", "")
CLS_PARAM == Param("cls", "", "")
\* Parameter | None: the empty sequence is None
NoParam == <<>>
Markers == {SELF_PARAM, CLS_PARAM}

\* AnnotationParam.getFirstParam(isStaticMethod, isClassMethod)
getFirstParam(isStaticMethod, isClassMethod) ==
    IF isStaticMethod THEN NoParam
    ELSE IF isClassMethod THEN <<CLS_PARAM>>
    ELSE <<SELF_PARAM>>

SelfSignature(parameters, return_annotation, exceptions) ==
    [parameters |-> parameters, return_annotation |-> return_annotation,
     exceptions |-> exceptions]

\* str(Parameter): `x`, `x: int`, `x=0`, `x: int = 0`
StrParam(p) ==
    IF p.annotation # ""
    THEN p.name \o ": " \o p.annotation
             \o (IF p.default # "" THEN " = " \o p.default ELSE "")
    ELSE p.name \o (IF p.default # "" THEN "=" \o p.default ELSE "")

RECURSIVE JoinParams(_)
JoinParams(ps) ==
    IF ps = <<>> THEN ""
    ELSE IF Len(ps) = 1 THEN StrParam(ps[1])
    ELSE StrParam(ps[1]) \o ", " \o JoinParams(Tail(ps))

\* str(signature): the parameters and the return annotation; the exceptions of a
\* SelfSignature are not part of its text
StrSignature(sig) ==
    "(" \o JoinParams(sig.parameters) \o ")"
        \o (IF sig.return_annotation # "" THEN " -> " \o sig.return_annotation ELSE "")

\* SignatureMerger: a code signature and a doc signature describe the same call form
\* when they have as many parameters
SameSlots(codeSig, docSig) == Len(codeSig.parameters) = Len(docSig.parameters)

\* the doc signature gives the names, the code signature the types and defaults it has
MergeSlots(codeSig, docSig) ==
    SelfSignature(
        [i \in 1..Len(codeSig.parameters) |->
            Param(docSig.parameters[i].name,
                  IF codeSig.parameters[i].annotation # ""
                  THEN codeSig.parameters[i].annotation
                  ELSE docSig.parameters[i].annotation,
                  IF codeSig.parameters[i].default # ""
                  THEN codeSig.parameters[i].default
                  ELSE docSig.parameters[i].default)],
        codeSig.return_annotation, codeSig.exceptions)

WithFirstParam(firstParam, sig) == [sig EXCEPT !.parameters = firstParam \o @]

RECURSIVE FlattenSignatures(_)
FlattenSignatures(lists) ==
    IF lists = <<>> THEN <<>> ELSE Head(lists) \o FlattenSignatures(Tail(lists))

\* SignatureMerger(codeSignatures, docSignatures, firstParam)
\*     .genMergedCodeAndDocSignatures()
genMergedCodeAndDocSignatures(codeSignatures, docSignatures, firstParam) ==
    LET fromCode(c) ==
            LET same == SelectSeq(docSignatures, LAMBDA dsig : SameSlots(c, dsig))
            IN  IF same = <<>> THEN <<c>>
                ELSE [i \in 1..Len(same) |-> MergeSlots(c, same[i])]
        onlyDoc == SelectSeq(docSignatures,
                             LAMBDA dsig : \A i \in 1..Len(codeSignatures) :
                                              ~SameSlots(codeSignatures[i], dsig))
        merged == FlattenSignatures([i \in 1..Len(codeSignatures) |->
                                        fromCode(codeSignatures[i])]) \o onlyDoc
    IN  [i \in 1..Len(merged) |-> WithFirstParam(firstParam, merged[i])]

\* _generateSignaturesFromDocString: nothing without a UserDocu text, else what
\* generateSignaturesFromDocstring finds in it
_generateSignaturesFromDocString(node) ==
    IF node.UserDocu = <<>> THEN <<>> ELSE node.docSignatures

\* the first parameter is left out of the one candidate made without impContent
_signatureArgGen_bare(self, node, codeSignatures, firstParam) ==
    IF self.impContent = <<>> THEN <<SelfSignature(<<>>, "", <<>>)>>
    ELSE genMergedCodeAndDocSignatures(codeSignatures,
                                       _generateSignaturesFromDocString(node), firstParam)

\* _signatureArgGen; codeSignatures is what generateSignaturesFromCode gives
_signatureArgGen(self, node, codeSignatures, firstParam) ==
    LET parameters == firstParam
    IN  IF self.impContent = <<>> THEN <<SelfSignature(parameters, "", <<>>)>>
        ELSE genMergedCodeAndDocSignatures(codeSignatures,
                                           _generateSignaturesFromDocString(node),
                                           firstParam)

\* every rendering kept, repeated or not
DictFromKeys_keepAll(keys) == keys

\* list(dict.fromkeys(keys).keys()): each key once, at its first position
RECURSIVE DictFromKeys(_)
DictFromKeys(keys) ==
    IF keys = <<>> THEN <<>>
    ELSE LET before == DictFromKeys(SubSeq(keys, 1, Len(keys) - 1))
             last == keys[Len(keys)]
         IN  IF \E i \in 1..Len(before) : before[i] = last THEN before
             ELSE Append(before, last)

\* genMethod up to the signatures handed to convertMethodToStr
genMethod(self, node, codeSignatures) ==
    LET firstParam == getFirstParam(node.Static, node.Class)
        allSignatures == _signatureArgGen(self, node, codeSignatures, firstParam)
    IN  [firstParam |-> firstParam,
         allSignatures |-> allSignatures,
         signatures |-> DictFromKeys([i \in 1..Len(allSignatures) |->
                                         StrSignature(allSignatures[i])])]

\* genInit returns '': no stub, nothing handed to convertMethodToStr
NoStub == [pythonFunName |-> "", cFunName |-> "", firstParam |-> NoParam,
           allSignatures |-> <<>>, signatures |-> <<>>]

\* genMethod(self.currentNode, cFunName='PyInit', cClassName=cClassName,
\*           pythonFunName='__init__', docsFunName=cClassName)
InitStub(self, node, codeSignatures) ==
    [pythonFunName |-> "__init__", cFunName |-> "PyInit",
     firstParam |-> genMethod(self, node, codeSignatures).firstParam,
     allSignatures |-> genMethod(self, node, codeSignatures).allSignatures,
     signatures |-> genMethod(self, node, codeSignatures).signatures]

\* genInit without the test of the return annotations of PyMake
genInit_noReturnTest(self, node, makeSignatures, codeSignatures) ==
    IF makeSignatures = <<>> THEN NoStub
    ELSE InitStub(self, node, codeSignatures)

\* genInit(); makeSignatures is what generateSignaturesFromCode gives for PyMake,
\* codeSignatures what it gives for PyInit
genInit(self, node, makeSignatures, codeSignatures) ==
    IF makeSignatures = <<>> THEN NoStub
    ELSE IF \A i \in 1..Len(makeSignatures) : makeSignatures[i].return_annotation = ""
        THEN NoStub
    ELSE InitStub(self, node, codeSignatures)

\* with newImportContext(): the imports recorded inside the block go to an import set
\* of their own; after the block the set is the one of before
newImportContext(imports, recorded) == imports

\* the required imports after genInit: those of before, and what the discovery for
\* PyInit records when genMethod is reached
genInitImports(imports, makeImports, codeImports, stub) ==
    IF stub = NoStub THEN newImportContext(imports, makeImports)
    ELSE requiredImportsUpdate(newImportContext(imports, makeImports), codeImports)

(***************************************************************************)
(* BaseGenerator (common/gen_base.py) and the files it reads.  A file is   *)
(* a record: exists, content.  The files of a generator whose file has the *)
(* stem S are decl (S.xml), imp (SImp.cpp), cpp (S.cpp), header (S.h) and, *)
(* for S = TPy, twin (T.h).                                                *)
(***************************************************************************)
File(content) == [exists |-> TRUE, content |-> content]

\* readContent(path): the text of the file, FileNotFoundError when it is absent
readContent(file) ==
    IF file.exists THEN [k |-> "str", v |-> "", content |-> file.content]
    ELSE [k |-> "raise", v |-> "FileNotFoundError", content |-> <<>>]

\* BaseGenerator.__init__(filePath, sourceDir); an XML generator parses its
\* declaration file first
BaseGenerator(kind, stem, fs) ==
    LET impPath == IF fs.imp.exists THEN fs.imp ELSE fs.cpp
        impContent == readContent(impPath)
    IN  IF kind = "xml" /\ ~fs.decl.exists
            THEN [k |-> "raise", v |-> "FileNotFoundError", obj |-> NoGenerator]
        ELSE IF impContent.k = "raise"
            THEN [k |-> "raise", v |-> impContent.v, obj |-> NoGenerator]
        ELSE [k |-> "obj", v |-> "",
              obj |-> [kind |-> kind, stem |-> stem, impContent |-> impContent.content]]

\* the constructor's exception let through
safeCreate_uncaught(kind, stem, fs) == BaseGenerator(kind, stem, fs)

\* safeCreate: None (k = "none") for FileNotFoundError and ParseError
safeCreate(kind, stem, fs) ==
    LET made == BaseGenerator(kind, stem, fs)
    IN  IF made.k = "raise" /\ made.v \in {"FileNotFoundError", "ParseError"}
        THEN [k |-> "none", v |-> "", obj |-> NoGenerator]
        ELSE made

(***************************************************************************)
(* FreecadStubGeneratorFromCppClass (from_cpp/klass.py)                    *)
(***************************************************************************)
\* REG_INIT_TYPE = re.compile(r'::init_type\([^{;]*{').match(t, p)
InitTypeMatchAt(t, p) ==
    LET a == p + 12
        e == MinOf({j \in a..(Len(t) - 1) : t[j + 1] \in {"{", ";"}}
                   \cup {IF a > Len(t) THEN a ELSE Len(t)})
    IN  IF StartsWithAt(t, <<":",":","i","n","i","t","_","t","y",
        "p","e","(">>, p) /\ e < Len(t) /\ t[e + 1] = "{"
        THEN [found |-> TRUE, start |-> p, end |-> e + 1]
        ELSE NoMatchObj

\* findFunctionCall(content, start): the text from start to the brace that closes
\* the function
findFunctionCall(content, m) ==
    LET close == FindFrom(content, <<"}">>, m.end)
    IN  Slice(content, m.start, IF close < 0 THEN Len(content) ELSE close + 1)

\* the literal head of REG_CLASS_NAME
ClassNameCall == <<"b","e","h","a","v","i","o","r","s","(",")",".","n","a","m","e","(">>
\* REG_CLASS_NAME = re.compile(r'behaviors\(\)\.name\(\s*"([\w.]+)"\s*\);').match(t, p)
ClassNameMatchAt(t, p) ==
    LET a == RunEnd(t, p + Len(ClassNameCall), Whitespace)
        e == RunEnd(t, a + 1, WordChar \cup {"."})
        w == RunEnd(t, e + 1, Whitespace)
    IN  IF /\ StartsWithAt(t, ClassNameCall, p)
           /\ a < Len(t) /\ t[a + 1] = "\""
           /\ e > a + 1
           /\ e < Len(t) /\ t[e + 1] = "\""
           /\ StartsWithAt(t, <<")",";">>, w)
        THEN [found |-> TRUE, text |-> Slice(t, a + 1, e), end |-> w + 2]
        ELSE NoMatchObj

\* REG_CLASS_NAME.search(t)
ClassNameSearch(t) ==
    LET hits == {p \in 0..(Len(t) - 1) : ClassNameMatchAt(t, p).found}
    IN  IF hits = {} THEN NoMatchObj ELSE ClassNameMatchAt(t, MinOf(hits))

\* className.count('.')
CountDots(s) == Cardinality({i \in 1..Len(s) : s[i] = "."})

\* a dotted name as the names module reads it: the module is what stands before the
\* last dot
Qualified(s) ==
    LET dot == RFind(s, <<".">>)
    IN  IF dot < 0 THEN QName("", Text(s))
        ELSE QName(Text(Slice(s, 0, dot)), Text(Slice(s, dot + 1, Len(s))))

\* useAliasedModule: App and Gui are the short names of FreeCAD and FreeCADGui
ModuleAliases == ("App" :> "FreeCAD") @@ ("Gui" :> "FreeCADGui")
useAliasedModule(q) ==
    IF q.mod \in DOMAIN ModuleAliases THEN QName(ModuleAliases[q.mod], q.cls) ELSE q

\* what _getClassName gives: a name (k = "str"), None (k = "none"), or an exception
ClassNameResult(k, v, name) == [k |-> k, v |-> v, name |-> name]

\* the `match className.count('.')` of _getClassName
ClassNameOf(className, moduleName) ==
    IF CountDots(className) = 0 THEN ClassNameResult("str", "", className)
    ELSE IF CountDots(className) = 1
        THEN IF getModuleName(useAliasedModule(Qualified(className))) # moduleName
             THEN ClassNameResult("raise", "ValueError", <<>>)
             ELSE ClassNameResult("str", "",
                      Slice(className, RFind(className, <<".">>) + 1, Len(className)))
    ELSE ClassNameResult("raise", "ValueError", <<>>)

\* a qualified name is taken as it is, whatever its module
ClassNameFromMatch_anyModule(classMatch, moduleName) ==
    IF ~classMatch.found THEN ClassNameResult("none", "", <<>>)
    ELSE ClassNameResult("str", "", classMatch.text)

ClassNameFromMatch(classMatch, moduleName) ==
    IF ~classMatch.found THEN ClassNameResult("none", "", <<>>)
    ELSE ClassNameOf(classMatch.text, moduleName)

_getClassName(funcCall, moduleName) ==
    ClassNameFromMatch(ClassNameSearch(funcCall), moduleName)

\* _getTwinHeaderContent: the text of the twin header, <<>> for None
_getTwinHeaderContent(self, fs) ==
    IF ~EndsWith(self.stem, <<"P","y">>) THEN <<>>
    ELSE IF readContent(fs.twin).k # "raise" THEN readContent(fs.twin).content
    ELSE IF readContent(fs.header).k # "raise" THEN readContent(fs.header).content
    ELSE <<>>

\* parseClass(className, twinHeaderContent).blocks, the QtSignalBlock items: the
\* declarations that follow `Q_SIGNALS:`, one per block
SignalAt(t, p) ==
    LET a == p + 10
        e == RunEndNotSemicolon(t, a)
    IN  IF StartsWithAt(t, <<"Q","_","S","I","G","N","A","L","S",":">>, p) /\ e < Len(t)
        THEN [found |-> TRUE, text |-> Strip(Slice(t, a, e)), end |-> e + 1]
        ELSE NoMatchObj
QtSignals(className, twinHeaderContent) ==
    IF Find(twinHeaderContent, <<"c","l","a","s","s"," ">> \o className) < 0 THEN <<>>
    ELSE FindIter([p \in 0..(Len(twinHeaderContent) - 1) |->
                      SignalAt(twinHeaderContent, p)], 0)

\* _genQtSignalAndSlots: the strings it yields
_genQtSignalAndSlots(self, fs, className) ==
    LET twinHeaderContent == _getTwinHeaderContent(self, fs)
        items == QtSignals(RemoveSuffix(className, <<"P","y">>), twinHeaderContent)
    IN  IF ~EndsWith(className, <<"P","y">>) THEN <<>>
        ELSE IF twinHeaderContent = <<>> THEN <<>>
        ELSE IF items = <<>> THEN <<>>
        ELSE [i \in 1..Len(items) |-> Text(items[i].text) \o "\n"] \o <<"\n">>

\* {className}\s*:\s*(?P<inherited>[^{]*{) at offset i
ClassHeadAt(t, className, i) ==
    LET c == RunEnd(t, i + Len(className), Whitespace)
        a == RunEnd(t, c + 1, Whitespace)
        e == MinOf({j \in a..(Len(t) - 1) : t[j + 1] = "{"}
                   \cup {IF a > Len(t) THEN a ELSE Len(t)})
    IN  IF /\ StartsWithAt(t, className, i)
           /\ c < Len(t) /\ t[c + 1] = ":"
           /\ e < Len(t)
        THEN [found |-> TRUE, inherited |-> Slice(t, a, e + 1), end |-> e + 1]
        ELSE NoMatchObj

\* class\s+(?:\w+\s+)?{className}\s*:\s*(?P<inherited>[^{]*{) at offset p: the
\* optional macro is tried first
ClassDeclMatchAt(t, className, p) ==
    LET ws == RunEnd(t, p + 5, Whitespace)
        macro == RunEnd(t, ws, WordChar)
        ws2 == RunEnd(t, macro, Whitespace)
        withMacro == IF macro > ws /\ ws2 > macro THEN ClassHeadAt(t, className, ws2)
                     ELSE NoMatchObj
    IN  IF ~(StartsWithAt(t, <<"c","l","a","s","s">>, p) /\ ws > p + 5) THEN NoMatchObj
        ELSE IF withMacro.found THEN withMacro
        ELSE ClassHeadAt(t, className, ws)

\* re.search of that pattern
ClassDeclSearch(t, className) ==
    LET hits == {p \in 0..(Len(t) - 1) : ClassDeclMatchAt(t, className, p).found}
    IN  IF hits = {} THEN NoMatchObj ELSE ClassDeclMatchAt(t, className, MinOf(hits))

AccessModifiers == {<<"p","u","b","l","i","c">>, <<"p","r","o",
        "t","e","c","t","e","d">>, <<"p","r","i","v","a","t","e">>}
\* end offset of the access modifier at offset p, -1 when there is none
ModifierEnd(t, p) ==
    LET here == {m \in AccessModifiers : StartsWithAt(t, m, p)}
    IN  IF here = {} THEN -1 ELSE p + Len(CHOOSE m \in here : TRUE)

\* (?:{|,\s*(?:public|protected|private)) at offset w: its end offset, -1 for none
BaseEnd(t, w) ==
    IF w < Len(t) /\ t[w + 1] = "{" THEN w + 1
    ELSE IF w < Len(t) /\ t[w + 1] = ","
        THEN ModifierEnd(t, RunEnd(t, w + 1, Whitespace))
    ELSE -1

\* REG_BASE_CLASS_INHERITANCE at offset p: \s+ takes the most it can, the lazy
\* (?P<baseClass>.+?) the least
BaseMatchAt(t, p) ==
    LET s0 == ModifierEnd(t, p)
        accepted(a) == {e \in (a + 1)..Len(t) :
                           /\ \A j \in (a + 1)..e : t[j] # "\n"
                           /\ BaseEnd(t, RunEnd(t, e, Whitespace)) >= 0}
        starts == IF s0 < 0 THEN {}
                  ELSE {a \in (s0 + 1)..RunEnd(t, s0, Whitespace) : accepted(a) # {}}
    IN  IF starts = {} THEN NoMatchObj
        ELSE [found |-> TRUE,
              baseClass |-> Slice(t, MaxOf(starts), MinOf(accepted(MaxOf(starts)))),
              end |-> BaseEnd(t, RunEnd(t, MinOf(accepted(MaxOf(starts))), Whitespace))]

\* re.finditer(REG_BASE_CLASS_INHERITANCE, inherited)
BaseFindIter(t) == FindIter([p \in 0..(Len(t) - 1) |-> BaseMatchAt(t, p)], 0)

\* the loop over the base classes: the Python classes found so far, the modules
\* their resolution added, and the exception that ended the loop if one did
RECURSIVE PythonClasses(_, _)
PythonClasses(matches, done) ==
    IF matches = <<>> THEN done
    ELSE LET pythonClass == _getPythonClass(Strip(Head(matches).baseClass))
         IN  IF pythonClass.k = "raise"
             THEN [done EXCEPT !.k = "raise", !.v = pythonClass.v]
             ELSE PythonClasses(Tail(matches),
                      [done EXCEPT !.imp = @ \o pythonClass.imp,
                                   !.names = IF pythonClass.k = "none" THEN @
                                             ELSE Append(@, TypeStr(pythonClass))])

\* _getBaseClasses: the text put after the class name, "" when there is none
_getBaseClasses(self, fs, className) ==
    LET twinHeaderContent == _getTwinHeaderContent(self, fs)
        match == ClassDeclSearch(twinHeaderContent, RemoveSuffix(className, <<"P","y">>))
        none == [k |-> "str", v |-> "", names |-> <<>>, imp |-> <<>>]
    IN  IF ~EndsWith(className, <<"P","y">>) THEN none
        ELSE IF twinHeaderContent = <<>> THEN none
        ELSE IF ~match.found THEN none
        ELSE LET baseClasses == PythonClasses(BaseFindIter(match.inherited), none)
             IN  IF baseClasses.k = "raise" \/ baseClasses.names = <<>> THEN baseClasses
                 ELSE [baseClasses EXCEPT
                          !.v = "(" \o JoinStr(baseClasses.names, ", ") \o ")"]

\* _genStub: one class per init_type block that has a class name (`continue` for a
\* block without one); of each class its name, its signals and its base classes
RECURSIVE GenStubClasses(_, _, _, _, _)
StubOfClass(self, fs, moduleName, blocks, done, className, baseClasses) ==
    IF baseClasses.k = "raise"
    THEN [done EXCEPT !.k = "raise", !.v = baseClasses.v, !.imp = @ \o baseClasses.imp]
    ELSE GenStubClasses(self, fs, moduleName, blocks,
             [done EXCEPT
                 !.imp = @ \o baseClasses.imp,
                 !.classes = Append(@,
                     [className |-> Text(className),
                      signals |-> _genQtSignalAndSlots(self, fs, className),
                      baseClasses |-> baseClasses.v])])

StubOfBlock(self, fs, moduleName, blocks, done, className) ==
    IF className.k = "raise" THEN [done EXCEPT !.k = "raise", !.v = className.v]
    ELSE IF className.k = "none" THEN GenStubClasses(self, fs, moduleName, blocks, done)
    ELSE StubOfClass(self, fs, moduleName, blocks, done, className.name,
                     _getBaseClasses(self, fs, className.name))

GenStubClasses(self, fs, moduleName, blocks, done) ==
    IF blocks = <<>> THEN done
    ELSE StubOfBlock(self, fs, moduleName, Tail(blocks), done,
                     _getClassName(findFunctionCall(self.impContent, Head(blocks)),
                                   moduleName))

_genStub(self, fs, moduleName) ==
    GenStubClasses(self, fs, moduleName,
                   FindIter([p \in 0..(Len(self.impContent) - 1) |->
                                InitTypeMatchAt(self.impContent, p)], 0),
                   [k |-> "str", v |-> "", classes |-> <<>>, imp |-> <<>>])

(***************************************************************************)
(* The inputs of the generators: files, init_type blocks, headers, XML     *)
(* method nodes and the signatures found for them.                         *)
(***************************************************************************)
\* the class names written in init_type blocks; <<>> is a block that names no class
BlockNames == {<<"V","e","c","t","o","r","P","y">>, <<"F","r",
        "e","e","C","A","D",".","V","e","c","t","o","r","P","y">>, <<"A",
        "p","p",".","V","e","c","t","o","r","P","y">>, <<"P","a",
        "r","t",".","V","e","c","t","o","r","P","y">>,
               <<"a",".","b",".","c">>, <<>>}
InitTypeBlock(name) ==
    IF name = <<>> THEN <<"v","o","i","d"," ","T",":",":","i",
        "n","i","t","_","t","y","p","e","(",")"," ","{"," ","b",
        "e","h","a","v","i","o","r","s","(",")",".","d","o","c",
        "(","\"","d","\"",")",";"," ","}"," ">>
    ELSE <<"v","o","i","d"," ","T",":",":","i","n","i","t","_",
        "t","y","p","e","(",")"," ","{"," ","b","e","h","a","v",
        "i","o","r","s","(",")",".","n","a","m","e","("," ","\"">> \o name \o <<"\"",
        ")",";"," ","}"," ">>

\* the number of init_type blocks of an implementation file
MaxBlocks == 2
BlockLists == UNION {[1..n -> BlockNames] : n \in 1..MaxBlocks}
RECURSIVE JoinBlocks(_)
JoinBlocks(names) ==
    IF names = <<>> THEN <<>> ELSE InitTypeBlock(Head(names)) \o JoinBlocks(Tail(names))

TwinHeaders == {
    <<"c","l","a","s","s"," ","A","p","p","E","x","p","o","r",
        "t"," ","V","e","c","t","o","r"," ",":"," ","p","u","b",
        "l","i","c"," ","B","a","s","e",":",":","M","a","t","r",
        "i","x","P","y",","," ","p","r","i","v","a","t","e"," ",
        "H","e","l","p","e","r",","," ","p","u","b","l","i","c",
        " ","Q","M","a","i","n","W","i","n","d","o","w"," ","{",
        " ","Q","_","S","I","G","N","A","L","S",":"," ","v","o",
        "i","d"," ","c","h","a","n","g","e","d","(",")",";"," ","}",";">>,
    <<"c","l","a","s","s"," ","V","e","c","t","o","r"," ",":",
        " ","p","u","b","l","i","c"," ","Q","O","b","j","e","c","t"," ","{"," ","}",";">>,
    <<"c","l","a","s","s"," ","V","e","c","t","o","r"," ","{"," ","}",";">>}
OwnHeaders == {<<"c","l","a","s","s"," ","V","e","c","t","o","r",
        ":"," ","p","u","b","l","i","c"," ","P","a","r","t",":",
        ":","T","o","p","o","S","h","a","p","e","P","y"," ","{",
        " ","Q","_","S","I","G","N","A","L","S",":"," ","v","o",
        "i","d"," ","m","o","v","e","d","(",")",";"," ","}",";">>}

OptionalFile(contents) == {Absent} \cup {File(c) : c \in contents}

\* the files next to an XML declaration, and those next to a C++ class file
FileSystems ==
    [decl : OptionalFile({<<"<","P","y","t","h","o","n","E","x","p","o","r","t","/",">">>}),
     imp : OptionalFile({<<>>, <<"P","y","O","b","j","e","c","t",
        "*"," ","V","e","c","t","o","r","P","y",":",":","P","y",
        "M","a","k","e","(",")"," ","{"," ","}">>}),
     cpp : OptionalFile({<<"P","y","O","b","j","e","c","t","*",
        " ","V","e","c","t","o","r","P","y",":",":","P","y","M",
        "a","k","e","(",")"," ","{"," ","}">>}),
     twin : {Absent}, header : {Absent}]
    \cup
    [decl : {Absent}, imp : {Absent},
     cpp : OptionalFile({JoinBlocks(names) : names \in BlockLists}),
     twin : OptionalFile(TwinHeaders), header : OptionalFile(OwnHeaders)]

Stems == {<<"V","e","c","t","o","r","P","y">>, <<"V","e","c","t","o","r">>}
ClassNames == {<<"V","e","c","t","o","r","P","y">>, <<"V","e","c","t","o","r">>}
ModuleNames == {"FreeCAD", "Part"}

\* what generateSignaturesFromCode finds: positional names from argNumStart on
ArgName(n) == "arg" \o ToString(n)
CodeCandidates(argNumStart) ==
    {SelfSignature(<<>>, "bool", <<>>),
     SelfSignature(<<Param(ArgName(argNumStart), "int", "0")>>, "", <<>>),
     SelfSignature(<<Param(ArgName(argNumStart), "int", "0")>>, "", <<"ValueError">>)}
\* what generateSignaturesFromDocstring finds
DocCandidates ==
    {SelfSignature(<<Param("x", "", "0")>>, "", <<>>),
     SelfSignature(<<Param("x", "", ""), Param("y", "", "")>>, "", <<>>)}

\* the number of signatures one source finds for a method
MaxSignatures == 2
SignatureLists(candidates) == UNION {[1..n -> candidates] : n \in 0..MaxSignatures}

\* a <Methode> node: its Static and Class attributes, its UserDocu text and the
\* signatures that text describes
Nodes ==
    {[Static |-> st, Class |-> cl, UserDocu |-> <<>>, docSignatures |-> <<>>] :
        st \in BOOLEAN, cl \in BOOLEAN}
    \cup
    {[Static |-> st, Class |-> cl, UserDocu |-> <<"f","(","x",")">>, docSignatures |-> ds] :
        st \in BOOLEAN, cl \in BOOLEAN, ds \in SignatureLists(DocCandidates)}

\* the <PythonExport> node of the class: no Static or Class attribute, at most one
\* call form in its documentation
ClassNodes ==
    {node \in Nodes : ~node.Static /\ ~node.Class /\ Len(node.docSignatures) <= 1}

\* what generateSignaturesFromCode finds for a function of the implementation and
\* the modules it records while resolving the types: nothing without a text to search
RecordedImports == {<<>>, <<"Part">>}
Discoveries(self, argNumStart) ==
    IF self.impContent = <<>> THEN {[signatures |-> <<>>, imports |-> <<>>]}
    ELSE {[signatures |-> sigs, imports |-> imp] :
              sigs \in SignatureLists(CodeCandidates(argNumStart)),
              imp \in RecordedImports}
             \ {[signatures |-> <<>>, imports |-> <<"Part">>]}

(***************************************************************************)
(* One stub generator as a state machine: safeCreate, then one operation   *)
(* of the generator.                                                       *)
(***************************************************************************)
InitGenerator ==
    /\ conv = [functionBody |-> <<>>, classNameWithModule |-> QName("FreeCAD", "Vector")]
    /\ requiredImports = <<>>
    /\ pc = "ready"
    /\ call = NoCall
    /\ result = NoMatch
    /\ calls = 0
    /\ files \in FileSystems
    /\ generator = NoGenerator
    /\ emitted = NoEmit

SafeCreate ==
    /\ pc = "ready"
    /\ emitted.op = "none"
    /\ \E kind \in {"xml", "cpp"}, stem \in Stems :
           /\ generator' = safeCreate(kind, stem, files).obj
           /\ emitted' = [op |-> "safeCreate", kind |-> kind, stem |-> stem,
                          k |-> safeCreate(kind, stem, files).k,
                          v |-> safeCreate(kind, stem, files).v]
           /\ pc' = IF safeCreate(kind, stem, files).k = "obj" THEN "ready" ELSE "done"
    /\ UNCHANGED <<conv, requiredImports, call, result, calls, files>>

GenMethod ==
    /\ pc = "ready"
    /\ generator.kind = "xml"
    /\ \E node \in Nodes :
         \E codeSignatures \in
                SignatureLists(CodeCandidates(Len(getFirstParam(node.Static, node.Class)))) :
           emitted' = [op |-> "genMethod", node |-> node,
                       codeSignatures |-> codeSignatures,
                       out |-> genMethod(generator, node, codeSignatures)]
    /\ pc' = "done"
    /\ UNCHANGED <<conv, requiredImports, call, result, calls, files, generator>>

GenStub ==
    /\ pc = "ready"
    /\ generator.kind = "cpp"
    /\ \E moduleName \in ModuleNames :
           /\ emitted' = [op |-> "_genStub", moduleName |-> moduleName,
                          out |-> _genStub(generator, files, moduleName)]
           /\ requiredImports' =
                  requiredImportsUpdate(requiredImports,
                                        _genStub(generator, files, moduleName).imp)
    /\ pc' = "done"
    /\ UNCHANGED <<conv, call, result, calls, files, generator>>

GetBaseClasses ==
    /\ pc = "ready"
    /\ generator.kind = "cpp"
    /\ \E className \in ClassNames :
           /\ emitted' = [op |-> "_getBaseClasses", className |-> className,
                          out |-> _getBaseClasses(generator, files, className)]
           /\ requiredImports' =
                  requiredImportsUpdate(requiredImports,
                                        _getBaseClasses(generator, files, className).imp)
    /\ pc' = "done"
    /\ UNCHANGED <<conv, call, result, calls, files, generator>>

GenQtSignalAndSlots ==
    /\ pc = "ready"
    /\ generator.kind = "cpp"
    /\ \E className \in ClassNames :
           emitted' = [op |-> "_genQtSignalAndSlots", className |-> className,
                       out |-> _genQtSignalAndSlots(generator, files, className)]
    /\ pc' = "done"
    /\ UNCHANGED <<conv, requiredImports, call, result, calls, files, generator>>

GenInit ==
    /\ pc = "ready"
    /\ generator.kind = "xml"
    /\ \E node \in ClassNodes, make \in Discoveries(generator, 0),
          init \in Discoveries(generator, 1) :
           /\ emitted' = [op |-> "genInit", node |-> node,
                          makeSignatures |-> make.signatures,
                          makeImports |-> make.imports,
                          codeSignatures |-> init.signatures,
                          codeImports |-> init.imports,
                          out |-> genInit(generator, node, make.signatures,
                                          init.signatures)]
           /\ requiredImports' =
                  genInitImports(requiredImports, make.imports, init.imports,
                                 genInit(generator, node, make.signatures,
                                         init.signatures))
    /\ pc' = "done"
    /\ UNCHANGED <<conv, call, result, calls, files, generator>>

NextGenerator ==
    \/ SafeCreate
    \/ GenMethod
    \/ GenInit
    \/ GenStub
    \/ GetBaseClasses
    \/ GenQtSignalAndSlots

GeneratorSpec == InitGenerator /\ [][NextGenerator]_vars

(***************************************************************************)
(* Properties.                                                             *)
(***************************************************************************)
IsExpressionCall == pc = "done" /\ call.op = "getExpressionType"
\* the fragment of the last call after _removePrefixes and _removeSuffix
Stripped == _removeSuffix(_removePrefixes(call.varText))

\* C1: a fragment that equals a sentinel (0, -1, NULL, nullptr, 0L) once its
\* reference/pointer/const/new_reference_to decoration is stripped makes
\* getExpressionType raise InvalidReturnType when onlyLiteral is false and return Any
\* when it is true; the empty fragment gives Any in both modes.
C1_Sentinels ==
    IsExpressionCall =>
        /\ Stripped \in Sentinels /\ ~call.onlyLiteral => result = InvalidReturnType
        /\ Stripped \in Sentinels /\ call.onlyLiteral => result = AnyValue
        /\ Stripped = <<>> => result = AnyValue
C1_Witness ==
    /\ IsExpressionCall
    /\ call.varText = <<"P","y",":",":","n","e","w","_","r","e",
        "f","e","r","e","n","c","e","_","t","o","(","n","u","l","l","p","t","r",")">>
    /\ ~call.onlyLiteral
    /\ result = InvalidReturnType

\* the tuple packs of the inputs and their sub-expressions
IsTuplePackOf(es) == IsExpressionCall /\ call.varText = TuplePack(es)
PackedElements == UNION {[1..n -> TupleElements] : n \in 1..MaxPack}
\* the resolved type of sub-expression e, rendered
SubType(e) == TypeStr(getExpressionType(conv, e, call.endPos, FALSE, MaxDepth))

\* C2: PyTuple_Pack(N, e1, ..., eN) resolves to tuple[t1, ..., tN] where ti is the
\* resolved type of ei, for every choice of sub-expressions, those that mention
\* Py_True/Py_False and the sentinels included.
C2_TuplePack ==
    \A es \in PackedElements :
        IsTuplePackOf(es) =>
            /\ result.k = "str"
            /\ result.v = "tuple[" \o JoinStr([i \in 1..Len(es) |-> SubType(es[i])], ", ")
                          \o "]"

\* the Python type of each builder
BuilderType ==
    (<<"P","y",":",":","B","o","o","l","e","a","n">> :> "bool") @@ (<<"P",
        "y","B","o","o","l","_","F","r","o","m","L","o","n","g">> :> "bool") @@
    (<<"P","y",":",":","L","o","n","g">> :> "int") @@ (<<"P","y",
        "L","o","n","g","_","F","r","o","m","L","o","n","g">> :> "int") @@ (<<"P",
        "y",":",":","I","n","t">> :> "int") @@
    (<<"P","y",":",":","F","l","o","a","t">> :> "float") @@ (<<"P",
        "y","F","l","o","a","t","_","F","r","o","m","D","o","u","b","l","e">> :> "float") @@
    (<<"P","y",":",":","S","t","r","i","n","g">> :> "str") @@ (<<"P",
        "y","U","n","i","c","o","d","e","_","F","r","o","m","S","t","r","i","n","g">> :> "str") @@
    (<<"P","y",":",":","L","i","s","t">> :> "list") @@ (<<"P",
        "y","L","i","s","t","_","N","e","w">> :> "list") @@
    (<<"P","y",":",":","D","i","c","t">> :> "dict") @@ (<<"P",
        "y","D","i","c","t","_","N","e","w">> :> "dict")
OnlyReturnsBoolean == conv.functionBody = <<"r","e","t","u","r",
        "n"," ","P","y",":",":","B","o","o","l","e","a","n","(","x"," ",">"," ","0",")",";">>

\* C3: a call to a recognized builder resolves to the builder's fixed Python type
\* whatever its argument text and in both onlyLiteral modes, and a body whose only
\* return is `return Py::Boolean(x > 0);` has the return type string "bool".
C3_Builders ==
    /\ \A b \in BuilderNames, a \in BuilderArgs :
           IsExpressionCall /\ call.varText = CallOf(b, a)
               => result = StrType(BuilderType[b])
    /\ pc = "done" /\ call.op = "getStrReturnType" /\ OnlyReturnsBoolean
           => result.k = "str" /\ result.v = "bool"
C3_Witness ==
    /\ IsExpressionCall
    /\ call.varText = <<"P","y",":",":","L","o","n","g","(","P","y","_","T","r","u","e",")">>
    /\ call.onlyLiteral
    /\ result = StrType("int")

\* the declarations of variableName the scan up to the use offset finds: the matches
\* that are no directive and whose type is not `return` or `else`, in text order
Declarations(variableName) ==
    LET matches == DecFindIter(BodyUpTo(conv, call.endPos), variableName)
    IN  SelectSeq(matches, LAMBDA m : ~m.directive /\ _extractTypeFromMatch(m) # <<>>)
\* what the declaration dec resolves variableName to
ResolvedFrom(variableName, dec) ==
    ResolveDeclaration(conv, variableName, call.endPos, MaxDepth - 1, dec,
                       DeclaredType(conv, call.endPos, MaxDepth - 1, dec,
                                    _extractTypeFromMatch(dec)))
IsVariableUse == IsExpressionCall /\ ~call.onlyLiteral /\ call.varText = <<"x">>

\* C4: when the body declares the variable more than once before the use offset,
\* the variable resolves from the latest of those declarations; directive matches
\* and matches whose type is `return` or `else` are not declarations.
C4_LastMatchWins ==
    IsVariableUse /\ Len(Declarations(call.varText)) >= 2 =>
        /\ \A i \in 1..(Len(Declarations(call.varText)) - 1) :
               Declarations(call.varText)[i].end
                   <= Declarations(call.varText)[i + 1].start
        /\ Declarations(call.varText)[Len(Declarations(call.varText))].end <= call.endPos
        /\ result = ResolvedFrom(call.varText,
                                 Declarations(call.varText)[Len(Declarations(call.varText))])
C4_Witness ==
    /\ IsVariableUse
    /\ Len(Declarations(call.varText)) = 2
    /\ ResolvedFrom(call.varText, Declarations(call.varText)[1]) = StrType("int")
    /\ result = StrType("float")

\* the class pointers whose Python class is the class being generated
OwnPointers == {p \in DOMAIN ClassRegistry : ClassRegistry[p] = conv.classNameWithModule}
IsNewOf(pointers) ==
    IsExpressionCall /\ \E p \in pointers : call.varText \in {NewOf(p), AsObjectNewOf(p)}

\* C5: `new <CurrentClass>(...)` and `Py::asObject(new <CurrentClass>(...))` resolve
\* to the qualified name of the class being generated and leave requiredImports as
\* it was before the call.
C5_SelfReference ==
    IsNewOf(OwnPointers) =>
        /\ result = StrType(QText(conv.classNameWithModule))
        /\ requiredImports = call.before
C5_Witness ==
    /\ IsNewOf(OwnPointers)
    /\ call.varText = <<"P","y",":",":","a","s","O","b","j","e",
        "c","t","(","n","e","w"," ","P","a","r","t",":",":","T",
        "o","p","o","S","h","a","p","e","P","y","(","v",")",")">>
    /\ result = StrType("Part.Shape")
    /\ call.before = <<"FreeCAD">>
    /\ requiredImports = <<"FreeCAD">>

IsReturnTypeCall == pc = "done" /\ call.op = "getReturnType"
\* the outcome of each return statement of the body, in text order
ReturnOutcomes ==
    LET returns == ReturnFindIter(conv.functionBody)
    IN  [i \in 1..Len(returns) |->
            getExpressionType(conv, returns[i].text, returns[i].end, FALSE, MaxDepth)]
Skipped(r) == r.k = "raise" /\ r.v = "InvalidReturnType"
\* the types one outcome contributes: the members of a union, else the type itself
Members(r) == IF r.k = "raise" THEN <<>> ELSE IF r.k = "union" THEN r.m ELSE <<TypeStr(r)>>
RECURSIVE Concat(_)
Concat(seqs) == IF seqs = <<>> THEN <<>> ELSE Head(seqs) \o Concat(Tail(seqs))
\* the elements of seq at their first occurrence, in order
FirstOccurrences(seq) ==
    LET keep == {i \in 1..Len(seq) : \A j \in 1..(i - 1) : seq[j] # seq[i]}
        nth(k) == CHOOSE i \in keep : Cardinality({j \in keep : j < i}) = k - 1
    IN  [k \in 1..Cardinality(keep) |-> seq[nth(k)]]
NoHardError == \A i \in DOMAIN ReturnOutcomes :
                   ReturnOutcomes[i].k = "raise" => Skipped(ReturnOutcomes[i])

\* C6: the return type of a body lists the types of its non-skipped return
\* statements in order of first appearance, each once, and a return that resolves to
\* a union contributes its members one by one: no member is itself a union.
C6_UnionFlat ==
    IsReturnTypeCall /\ NoHardError =>
        /\ result.k = "union"
        /\ result.m = FirstOccurrences(Concat([i \in DOMAIN ReturnOutcomes |->
                                                  Members(ReturnOutcomes[i])]))
        /\ \A i, j \in 1..Len(result.m) : i # j => result.m[i] # result.m[j]
        /\ \A i \in 1..Len(result.m), o \in DOMAIN ReturnOutcomes :
               ReturnOutcomes[o].k = "union" /\ Len(ReturnOutcomes[o].m) > 1
                   => result.m[i] # TypeStr(ReturnOutcomes[o])
C6_Witness ==
    /\ IsReturnTypeCall
    /\ \E o \in DOMAIN ReturnOutcomes : ReturnOutcomes[o].k = "union"
    /\ result.m = <<"Part.Shape", "Mesh.MeshObject", "Points.PointKernel", "FreeCAD.Vector">>

\* C7: a return statement whose expression raises InvalidReturnType is skipped and
\* the others are still scanned, wherever the skipped ones stand: the return type
\* holds exactly the types of the returns that did not raise, and InvalidReturnType
\* never comes out of getReturnType.
C7_SkipInvalid ==
    IsReturnTypeCall =>
        /\ ~Skipped(result)
        /\ NoHardError =>
               /\ result.k = "union"
               /\ Elems(result.m) =
                      UNION {Elems(Members(ReturnOutcomes[i])) : i \in DOMAIN ReturnOutcomes}
C7_Witness ==
    /\ IsReturnTypeCall
    /\ Len(ReturnOutcomes) = 2
    /\ Skipped(ReturnOutcomes[1])
    /\ result.m = <<"bool">>

\* C8: getExpressionType returns a resolved type or raises InvalidReturnType; no
\* other exception reaches its caller, whatever the fragment, body and offset.
C8_NoOtherException ==
    IsExpressionCall /\ result.k = "raise" => result.v = "InvalidReturnType"

\* the class pointers whose Python class is another class of the module of the class
\* being generated
SiblingPointers ==
    {p \in DOMAIN ClassRegistry :
        /\ getModuleName(ClassRegistry[p]) = getModuleName(conv.classNameWithModule)
        /\ getClassName(ClassRegistry[p]) # getClassName(conv.classNameWithModule)
        /\ getClassName(ClassRegistry[p]) # "PropertyComplexGeoData"}

\* C9: resolving `new X(...)` records a required import only when the module of X
\* differs from the module of the class being generated; for another class of the
\* same module requiredImports is not changed.
C9_ImportOnlyOtherModule ==
    /\ IsNewOf(SiblingPointers) => requiredImports = call.before
    /\ IsNewOf(DOMAIN ClassRegistry) /\ requiredImports # call.before =>
           \E p \in DOMAIN ClassRegistry :
               /\ call.varText \in {NewOf(p), AsObjectNewOf(p)}
               /\ getModuleName(ClassRegistry[p]) # getModuleName(conv.classNameWithModule)

\* a step within one generation unit: every step but the start of the next unit
WithinUnit == calls' # 0
Grows == Elems(requiredImports) \subseteq Elems(requiredImports')
ResolvesToAny(r) == r.k = "any" \/ (r.k = "union" /\ r.m = <<AnyStr>>)

IsGenMethod == pc = "done" /\ emitted.op = "genMethod"
\* the canonical text of each merged candidate, in the order of the merge
Renderings ==
    [i \in 1..Len(emitted.out.allSignatures) |->
        StrSignature(emitted.out.allSignatures[i])]
\* the position at which text first occurs in seq
FirstIndex(seq, text) == MinOf({i \in 1..Len(seq) : seq[i] = text})

\* C11: the signatures emitted for a method hold no text twice, hold the text of
\* every merged candidate, and stand in the order in which their texts first occur
\* in the merged sequence.
C11_Deduplicated ==
    IsGenMethod =>
        /\ \A i, j \in 1..Len(emitted.out.signatures) :
               i # j => emitted.out.signatures[i] # emitted.out.signatures[j]
        /\ Elems(emitted.out.signatures) = Elems(Renderings)
        /\ \A i, j \in 1..Len(emitted.out.signatures) :
               i < j => FirstIndex(Renderings, emitted.out.signatures[i])
                            < FirstIndex(Renderings, emitted.out.signatures[j])
C11_Witness ==
    /\ IsGenMethod
    /\ Len(emitted.out.allSignatures) = 2
    /\ emitted.out.allSignatures[1] # emitted.out.allSignatures[2]
    /\ emitted.out.signatures = <<"(self, x: int = 0)">>

\* C12: every candidate of a method starts with firstParam when firstParam is a
\* self/cls marker and holds no marker when firstParam is nothing; without
\* implementation content there is exactly one candidate, made of firstParam alone,
\* whatever the documentation of the node says.
C12_FirstParam ==
    IsGenMethod =>
        /\ \A i \in 1..Len(emitted.out.allSignatures) :
               IF emitted.out.firstParam # NoParam
               THEN /\ emitted.out.firstParam[1] \in Markers
                    /\ Len(emitted.out.allSignatures[i].parameters) >= 1
                    /\ emitted.out.allSignatures[i].parameters[1]
                           = emitted.out.firstParam[1]
               ELSE \A j \in 1..Len(emitted.out.allSignatures[i].parameters) :
                        emitted.out.allSignatures[i].parameters[j] \notin Markers
        /\ generator.impContent = <<>> =>
               emitted.out.allSignatures
                   = <<SelfSignature(emitted.out.firstParam, "", <<>>)>>
C12_Witness ==
    /\ IsGenMethod
    /\ generator.impContent = <<>>
    /\ Len(emitted.node.docSignatures) = 2
    /\ Len(emitted.codeSignatures) = 2
    /\ emitted.out.allSignatures = <<SelfSignature(<<CLS_PARAM>>, "", <<>>)>>

IsGenStub == pc = "done" /\ emitted.op = "_genStub"
\* the module a class name is qualified with, under the name the generation uses
\* for it
NamedModule(name) ==
    LET module == Text(Slice(name, 0, Find(name, <<".">>)))
    IN  IF module \in DOMAIN ModuleAliases THEN ModuleAliases[module] ELSE module
\* a class name the generation refuses: qualified with another module, or twice
Refused(name, moduleName) ==
    \/ CountDots(name) >= 2
    \/ CountDots(name) = 1 /\ NamedModule(name) # moduleName
\* the class name kept for a name that is not refused
Kept(name) ==
    IF CountDots(name) = 0 THEN Text(name)
    ELSE Text(Slice(name, Find(name, <<".">>) + 1, Len(name)))

\* C13: of the class names of the init_type blocks, one without qualification is
\* used as it is, one qualified once with the module being generated is reduced to
\* the bare class name, one qualified with another module or qualified twice or
\* more raises ValueError, and a block that names no class is skipped without error.
C13_ClassName ==
    \A names \in BlockLists :
        IsGenStub /\ generator.impContent = JoinBlocks(names) =>
            LET named == SelectSeq(names, LAMBDA n : n # <<>>)
            IN  IF \E i \in 1..Len(named) : Refused(named[i], emitted.moduleName)
                THEN emitted.out.k = "raise" /\ emitted.out.v = "ValueError"
                ELSE emitted.out.k = "str" =>
                         [i \in 1..Len(emitted.out.classes) |->
                             emitted.out.classes[i].className]
                             = [i \in 1..Len(named) |-> Kept(named[i])]
C13_Witness ==
    /\ IsGenStub
    /\ generator.impContent = JoinBlocks(<< <<>>, <<"F","r","e",
        "e","C","A","D",".","V","e","c","t","o","r","P","y">> >>)
    /\ emitted.moduleName = "FreeCAD"
    /\ emitted.out.k = "str"
    /\ Len(emitted.out.classes) = 1
    /\ emitted.out.classes[1].className = "VectorPy"

\* neither candidate name of the twin header can be read
TwinUnreadable == ~files.twin.exists /\ ~files.header.exists

DomainPrefixes ==
    {<<"P","y",":",":","B","o","u","n","d","i","n","g","B","o",
        "x">>, <<"P","y",":",":","M","a","t","r","i","x">>, <<"P",
        "y",":",":","R","o","t","a","t","i","o","n">>, <<"P","y",
        ":",":","P","l","a","c","e","m","e","n","t">>,
     <<"P","y",":",":","V","e","c","t","o","r","2","d">>, <<"P",
        "y",":",":","V","e","c","t","o","r">>}
MethodCallSuffixes ==
    {<<"-",">","c","o","p","y","P","y","O","b","j","e","c","t",
        "(",")">>, <<"-",">","c","_","s","t","r","(",")">>, <<"-",
        ">","g","e","t","P","y","O","b","j","e","c","t","(",")">>, <<".",
        "g","e","t","P","y","O","b","j","e","c","t","(",")">>}
\* what the k-th resolver of the chain gives for the fragment of the last call
ResolverResult(k) ==
    CASE k = 1 -> _matchLiterals(Stripped, call.onlyLiteral)
      [] k = 2 -> _matchPyType(conv, Stripped, call.endPos, call.onlyLiteral, MaxDepth - 1)
      [] k = 3 -> _matchSpecial(Stripped)
      [] k = 4 -> _matchQt(Stripped)
      [] k = 5 -> _matchMethodCall(conv, Stripped, call.endPos, MaxDepth - 1)
      [] k = 6 -> _matchFreeCAD(conv, Stripped, call.endPos, MaxDepth - 1)
      [] k = 7 -> _matchFinalPossibilities(conv, Stripped, call.endPos, call.onlyLiteral,
                                           MaxDepth - 1)
MatchesBoth ==
    /\ IsExpressionCall
    /\ SwStart(Stripped, DomainPrefixes)
    /\ SwEnd(Stripped, MethodCallSuffixes)
    /\ ResolverResult(1) = NoMatch /\ ResolverResult(2) = NoMatch
    /\ ResolverResult(3) = NoMatch /\ ResolverResult(4) = NoMatch

LastDeclaration == Declarations(call.varText)[Len(Declarations(call.varText))]
DeclaredOf ==
    DeclaredType(conv, call.endPos, MaxDepth - 1, LastDeclaration,
                 _extractTypeFromMatch(LastDeclaration))
AssignedTexts ==
    Group1(AssignFindIter(BodyUpTo(conv, call.endPos), call.varText, LastDeclaration.end))
UsesAssignments ==
    /\ IsVariableUse
    /\ Declarations(call.varText) # <<>>
    /\ DeclaredOf \in {StrType("None"), AnyValue}
\* the union of the assignments, each resolved in literal-only mode
LiteralOnlyUnion ==
    UnionOrAny(_genVariableTypeFromRegex(conv, AssignedTexts, call.endPos, TRUE,
                                         MaxDepth - 1, UnionType(<<>>)))
AssignsSentinel ==
    \E i \in 1..Len(AssignedTexts) :
        _removeSuffix(_removePrefixes(AssignedTexts[i])) \in Sentinels

\* C16: when the declared type of a variable resolves to None or to Any, the
\* assignments between the end of the declaration and the use offset are resolved in
\* literal-only mode and unioned, None being added to the union when the declared
\* type was None; an assignment of a sentinel (`x = NULL;`) contributes nothing and
\* InvalidReturnType is not raised.
C16_LiteralOnlyAssignments ==
    UsesAssignments /\ AssignsSentinel =>
        /\ result # InvalidReturnType
        /\ result = InnerTypeOf(IF DeclaredOf = AnyValue THEN LiteralOnlyUnion
                                ELSE FoldNone(LiteralOnlyUnion))

\* the first n characters of the body b
Prefix(b, n) == Slice(b, 0, IF n < Len(b) THEN n ELSE Len(b))
\* the bodies that differ from the body of the converter at or after the use offset
\* of the last call only
SameUpToUse ==
    {b \in FunctionBodies :
         Prefix(b, call.endPos) = Prefix(conv.functionBody, call.endPos)}

\* C17: the scans made while resolving a fragment at the use offset endPos see the
\* body before endPos only: a body that differs at or after endPos gives the same
\* result for getExpressionType(fragment, endPos); and a call leaves the body of the
\* converter as it was.
C17_BoundedByEndPos ==
    /\ [](IsExpressionCall =>
              \A b \in SameUpToUse :
                  result = getExpressionType([conv EXCEPT !.functionBody = b],
                                             call.varText, call.endPos, call.onlyLiteral,
                                             MaxDepth))
    /\ [][pc = "ready" /\ pc' = "done" => conv' = conv]_vars
C17_Witness ==
    /\ IsVariableUse
    /\ call.endPos < Len(conv.functionBody)
    /\ AssignFindIter(conv.functionBody, call.varText, call.endPos) # <<>>
    /\ Cardinality(SameUpToUse) = 2
    /\ result = UnionType(<<"int">>)

\* C18: in non-literal mode a fragment that is a plain identifier naming a variable
\* declared before the use offset resolves from that declaration, whatever the
\* identifier starts with (`interval` declared `Py::Float interval(1.0);` is float,
\* not int).
C18_IdentifierByDeclaration ==
    /\ IsExpressionCall
    /\ ~call.onlyLiteral
    /\ IsIdentifier(Stripped)
    /\ Declarations(Stripped) # <<>>
    => result = ResolvedFrom(Stripped, Declarations(Stripped)[Len(Declarations(Stripped))])

\* the assignments `name = ...;` of t from offset pos on whose left-hand side is the
\* whole word name and whose operator is `=`, not `==`
StandaloneAssignAt(t, name, p) ==
    LET m == AssignMatchAt(t, name, p)
    IN  IF m.found /\ WordBoundary(t, p) /\ ~StartsWith(m.text, <<"=">>) THEN m
        ELSE NoMatchObj
StandaloneAssignments(t, name, pos) ==
    FindIter([p \in pos..(Len(t) - 1) |-> StandaloneAssignAt(t, name, p)], pos)
\* the union those assignments give, resolved as _getRetTypeFromAssignment resolves
StandaloneUnion ==
    UnionOrAny(_genVariableTypeFromRegex(
                   conv,
                   Group1(StandaloneAssignments(BodyUpTo(conv, call.endPos), call.varText,
                                                LastDeclaration.end)),
                   call.endPos, FALSE, MaxDepth - 1, UnionType(<<>>)))

\* C19: the assignment scan for a variable takes the assignments whose left-hand
\* side is that variable as a standalone word only: an assignment to a variable whose
\* name ends with it (`max = ...;` for `x`) and a comparison (`x == ...;`) give no
\* type to the union of the variable.
C19_StandaloneWord ==
    UsesAssignments =>
        result = InnerTypeOf(IF DeclaredOf = AnyValue THEN StandaloneUnion
                             ELSE FoldNone(StandaloneUnion))

\* C20: getExpressionType reaches a result for every fragment, body and offset: the
\* nesting of its calls through parenthesis and wrapper unwrapping, declaration
\* search and assignment scan ends, also when untyped variables are assigned from
\* each other (`x = y; y = x;`).
C20_Terminates ==
    IsExpressionCall => result # Raise("RecursionError")

IsGenInit == pc = "done" /\ emitted.op = "genInit"
\* the discovery for PyMake found a signature with a return annotation
MakeReturns ==
    \E i \in 1..Len(emitted.makeSignatures) :
        emitted.makeSignatures[i].return_annotation # ""

====
